---------------------------- MODULE Spec2Model ----------------------------
(***************************************************************************)
(* Model of the multilingual comment-analysis services of the backend:    *)
(*   services/sentiment_analyzer.py   SentimentAnalyzer                   *)
(*   services/language_detector.py    LanguageDetector                    *)
(*   services/theme_categorizer.py    ThemeCategorizer                    *)
(*   services/clustering_service.py   ClusteringService                   *)
(*                                                                         *)
(* Conventions.                                                            *)
(*  - A Python str is a sequence of characters; a character is a one       *)
(*    character string for printable ASCII ("a") and the name of its code  *)
(*    point otherwise ("U+0644").  S("abc") is <<"a","b","c">>.            *)
(*  - Floats that the code compares or returns are integers in hundredths  *)
(*    (0.55 is 55), ratios are kept as numerator/denominator pairs, and    *)
(*    percentages rounded to one decimal are integers in tenths.           *)
(*  - A JSON value (= the Python value json() yields) is a tagged record:  *)
(*    [t |-> "null"], [t |-> "num", v |-> n], [t |-> "str", v |-> s],      *)
(*    [t |-> "list", v |-> seq], [t |-> "obj", v |-> f], f a function      *)
(*    from the keys present to JSON values.                                *)
(*  - Each service has its own specification (SpecSentiment, SpecLang,     *)
(*    SpecThemes, SpecCluster); a service's variable holds the record of   *)
(*    the last call made to it: inputs, outcomes of the external           *)
(*    collaborators, and the value returned.                               *)
(***************************************************************************)
EXTENDS Integers, Sequences, FiniteSets, TLC

VARIABLES
  sa,      \* SentimentAnalyzer: the last analyze() call
  batch,   \* SentimentAnalyzer.analyze_batch(): the loop in progress
  ld,      \* LanguageDetector: the last detect_language()/get_confidence() call
  tc,      \* ThemeCategorizer: the last get_categorized_themes() call
  cl,      \* ClusteringService: the last cluster_kmeans()/cluster_dbscan() call
  te,      \* TopicExtractor: the last extract_themes_single() call
  db,      \* the persisted records: evaluations, analyses, clusters, themes, insights
  session, \* the writes added to the session and not yet committed
  nlp,     \* NLPService / AnalyticsService: the last call made on the session
  runs,    \* process_batch calls in progress, each on a session of its own
  uploads  \* POST /upload requests, each on a session of its own

vars == <<sa, batch, ld, tc, cl, te, db, session, nlp, runs, uploads>>

NoCall == [op |-> "none"]

\* The tables before anything was stored, and a session with nothing pending.
EmptyDatabase ==
  [evaluations |-> <<>>, analyses |-> <<>>, clusters |-> <<>>, themes |-> <<>>,
   insights |-> <<>>]
NoPendingWrites == [analyses |-> <<>>, themes |-> <<>>]

-----------------------------------------------------------------------------
(* Python strings and characters                                           *)

S(str) == [i \in 1..Len(str) |-> SubSeq(str, i, i)]

\* `w in s` on Python strs: w occurs as a contiguous substring of s.
Contains(s, w) ==
  \E i \in 1..(Len(s) - Len(w) + 1) : SubSeq(s, i, i + Len(w) - 1) = w

Min(a, b) == IF a <= b THEN a ELSE b
Max(a, b) == IF a >= b THEN a ELSE b

AsciiLower == {"a","b","c","d","e","f","g","h","i","j","k","l","m",
               "n","o","p","q","r","s","t","u","v","w","x","y","z"}
AsciiUpper == {"A","B","C","D","E","F","G","H","I","J","K","L","M",
               "N","O","P","Q","R","S","T","U","V","W","X","Y","Z"}
AsciiDigits == {"0","1","2","3","4","5","6","7","8","9"}

\* Letters outside ASCII that the lexicons and the sample texts use.
Latin1Lower == {"U+00E7", "U+00E8", "U+00E9"}              \* c-cedilla, e-grave, e-acute
Latin1Upper == {"U+00C9"}                                  \* E-acute
ArabicLetters ==                                           \* U+0621..U+064A, category Lo
  {"U+0621", "U+0626", "U+0627", "U+0629", "U+062A", "U+062C", "U+062F",
   "U+0631", "U+0632", "U+0633", "U+0636", "U+0639", "U+063A", "U+0641",
   "U+0642", "U+0644", "U+0645", "U+064A"}
ArabicDigits == {"U+0661", "U+0662", "U+0663"}             \* Arabic-Indic digits, category Nd
ArabicPunct  == {"U+060C", "U+061F"}                       \* Arabic comma, question mark
ArabicMarks  == {"U+064E"}                                 \* fatha, category Mn
PresentationLetters == {"U+FE8D"}                          \* alef isolated form, category Lo
Whitespace == {" ", "U+0009", "U+000A"}

\* c.isalpha()
IsAlpha(c) ==
  c \in AsciiLower \cup AsciiUpper \cup Latin1Lower \cup Latin1Upper
        \cup ArabicLetters \cup PresentationLetters

\* '\u0600' <= c <= '\u06FF': the code point is 06xx.
IsArabicRange(c) == Len(c) = 6 /\ SubSeq(c, 1, 4) = "U+06"

\* c < '\u0600': ASCII, or a code point 00xx .. 05xx.
BelowArabic(c) ==
  \/ Len(c) = 1
  \/ Len(c) = 6 /\ SubSeq(c, 1, 3) = "U+0" /\ SubSeq(c, 4, 4) \in {"0","1","2","3","4","5"}

\* \w of the re module on str patterns: alphanumeric or underscore.
IsWordChar(c) == IsAlpha(c) \/ c \in AsciiDigits \cup ArabicDigits \/ c = "_"

\* \s of the re module, and the characters str.strip() removes.
IsSpace(c) == c \in Whitespace

UpperToLower ==
  [c \in AsciiUpper \cup Latin1Upper |->
     CASE c = "A" -> "a" [] c = "B" -> "b" [] c = "C" -> "c" [] c = "D" -> "d"
       [] c = "E" -> "e" [] c = "F" -> "f" [] c = "G" -> "g" [] c = "H" -> "h"
       [] c = "I" -> "i" [] c = "J" -> "j" [] c = "K" -> "k" [] c = "L" -> "l"
       [] c = "M" -> "m" [] c = "N" -> "n" [] c = "O" -> "o" [] c = "P" -> "p"
       [] c = "Q" -> "q" [] c = "R" -> "r" [] c = "S" -> "s" [] c = "T" -> "t"
       [] c = "U" -> "u" [] c = "V" -> "v" [] c = "W" -> "w" [] c = "X" -> "x"
       [] c = "Y" -> "y" [] c = "Z" -> "z" [] c = "U+00C9" -> "U+00E9"]

\* str.lower()
Lower(s) == [i \in 1..Len(s) |-> IF s[i] \in DOMAIN UpperToLower THEN UpperToLower[s[i]] ELSE s[i]]

\* `not text or not text.strip()`
IsBlank(text) == \A i \in 1..Len(text) : IsSpace(text[i])

\* sum(1 for w in words if w in s)
CountIn(words, s) == Cardinality({w \in words : Contains(s, w)})

IsLatinLetter(c) == IsAlpha(c) /\ BelowArabic(c)

\* sum(1 for c in text if '\u0600' <= c <= '\u06FF')
arabic_chars(text) == Cardinality({i \in 1..Len(text) : IsArabicRange(text[i])})
\* sum(1 for c in text if c.isalpha() and c < '\u0600')
latin_chars(text) == Cardinality({i \in 1..Len(text) : IsLatinLetter(text[i])})
\* len([c for c in text if c.isalpha()])
total_chars(text) == Cardinality({i \in 1..Len(text) : IsAlpha(text[i])})

\* All concatenations of at most n of the given chunks.
RECURSIVE ConcatsUpTo(_, _)
ConcatsUpTo(chunks, n) ==
  IF n = 0 THEN {<<>>}
  ELSE LET shorter == ConcatsUpTo(chunks, n - 1)
       IN  shorter \cup {t \o c : t \in shorter, c \in chunks}

-----------------------------------------------------------------------------
(* SentimentAnalyzer (services/sentiment_analyzer.py)                      *)

POSITIVE == "positive"
NEGATIVE == "negative"
NEUTRAL  == "neutral"

FR     == "FR"
AR     == "AR"
DARIJA == "DARIJA"

JNull     == [t |-> "null"]
JNum(n)   == [t |-> "num", v |-> n]
JStr(s)   == [t |-> "str", v |-> s]
JList(xs) == [t |-> "list", v |-> xs]
JObj(f)   == [t |-> "obj", v |-> f]

\* Python truth value of a JSON value (`if result:`, `if result[0]`).
Truthy(x) ==
  CASE x.t = "null" -> FALSE
    [] x.t = "num"  -> x.v # 0
    [] x.t = "str"  -> Len(x.v) > 0
    [] x.t = "list" -> Len(x.v) > 0
    [] x.t = "obj"  -> DOMAIN x.v # {}

\* dict.get(key, default)
Get(d, key, default) == IF key \in DOMAIN d.v THEN d.v[key] ELSE default

\* self.models.get(language, self.models[FRENCH])
ModelFor(language) ==
  CASE language = FR     -> "cmarkea/distilcamembert-base-sentiment"
    [] language = AR     -> "CAMeL-Lab/bert-base-arabic-camelbert-msa-sentiment"
    [] language = DARIJA -> "SI2M-Lab/DarijaBERT"
    [] OTHER             -> "cmarkea/distilcamembert-base-sentiment"

MAX_INPUT_CHARS == 512

\* The request _query_api posts: the model's URL and text[:512].
Request(model_name, text) ==
  [model |-> model_name, inputs |-> SubSeq(text, 1, Min(Len(text), MAX_INPUT_CHARS))]

\* The body that is no JSON at all: response.json() raises.
NotJson == [t |-> "notjson"]

HTTP_OK == 200

\* _query_api: None (JNull) on an exception, a non-200 status, a body that is
\* no JSON or no non-empty list; else the first element, or the first element
\* of a nested first list.
QueryApi(outcome) ==
  IF outcome.kind = "exception" THEN JNull
  ELSE IF outcome.status = HTTP_OK
       THEN IF outcome.body = NotJson THEN JNull
            ELSE LET result == outcome.body
                 IN  IF result.t = "list" /\ Len(result.v) > 0
                     THEN IF result.v[1].t = "list"
                          THEN (IF Truthy(result.v[1]) THEN result.v[1].v[1] ELSE JNull)
                          ELSE result.v[1]
                     ELSE JNull
       ELSE JNull

CONFIDENCE_THRESHOLD == 55

PositiveMarkers == {S("pos"), S("positive"), S("1"), S("5_stars"), S("4_stars")}
NegativeMarkers == {S("neg"), S("negative"), S("0"), S("1_star"), S("2_stars")}
NeutralMarkers  == {S("neu"), S("neutral"), S("3_stars")}

Raised == [raised |-> TRUE]
Normal(sentiment, score) == [raised |-> FALSE, sentiment |-> sentiment, score |-> score]

\* _normalize_sentiment on a truthy result.  It raises when result has no
\* get() (it is no dict), when the label has no lower() (it is no str), and when
\* a positive or negative label meets a score that does not compare with a float.
NormalizeSentiment(result) ==
  IF result.t # "obj" THEN Raised
  ELSE LET rawLabel   == Get(result, "label", JStr(<<>>))
           confidence == Get(result, "score", JNum(50))
       IN  IF rawLabel.t # "str" THEN Raised
           ELSE LET label == Lower(rawLabel.v)
                IN  IF \E m \in PositiveMarkers : Contains(label, m)
                    THEN IF confidence.t # "num" THEN Raised
                         ELSE IF confidence.v >= CONFIDENCE_THRESHOLD
                              THEN Normal(POSITIVE, confidence.v)
                              ELSE Normal(NEUTRAL, 0)
                    ELSE IF \E m \in NegativeMarkers : Contains(label, m)
                    THEN IF confidence.t # "num" THEN Raised
                         ELSE IF confidence.v >= CONFIDENCE_THRESHOLD
                              THEN Normal(NEGATIVE, -confidence.v)
                              ELSE Normal(NEUTRAL, 0)
                    ELSE Normal(NEUTRAL, 0)

positive_words ==
  {
    S("bien"), S("bon"), S("clair"), S("comp") \o <<"U+00E9">> \o S("tent"), S("dynamique"),
    S("efficace"), S("enrichissant"), S("excellent"), S("g") \o <<"U+00E9">> \o S("nial"),
    S("int") \o <<"U+00E9">> \o S("ressant"), S("kamel"), S("labas"), S("mezyan"), S("mzyan"),
    S("parfait"), S("pertinent"), S("professionnel"), S("recommande"), S("satisfaisant"),
    S("satisfait"), S("super"), S("top"), S("tr") \o <<"U+00E8">> \o S("s bien"), S("utile"),
    S("zwina"), <<"U+062C", "U+064A", "U+062F">>, <<"U+0631", "U+0627", "U+0626", "U+0639">>,
    <<"U+0645", "U+0641", "U+064A", "U+062F">>,
    <<"U+0645", "U+0645", "U+062A", "U+0627", "U+0632">>
  }

negative_words ==
  {
    S("agressif"), S("catastrophe"), S("compliqu") \o <<"U+00E9">>, S("correct sans plus"),
    S("difficile"), S("d") \o <<"U+00E9">> \o S("cevant"), S("d") \o <<"U+00E9">> \o S("sastre"),
    S("d") \o <<"U+00E9">> \o S("sengag") \o <<"U+00E9">>,
    S("d") \o <<"U+00E9", "U+00E7">> \o S("u"), S("ennuyeux"), S("erreur"), S("f9ir"), S("faible"),
    S("fausse"), S("horrible"), S("incompr") \o <<"U+00E9">> \o S("hensible"),
    S("incomp") \o <<"U+00E9">> \o S("tent"), S("insatisfait"), S("inutile"), S("katastroph"),
    S("khayb"), S("khayba"), S("khsara"), S("ma kanet"), S("ma3lich"), S("machi mezyan"), S("mal"),
    S("manque"), S("mauvais"), S("moyenne"), S("m") \o <<"U+00E9">> \o S("diocre"), S("nul"),
    S("obsol") \o <<"U+00E8">> \o S("te"), S("pas claire"), S("pas terrible"), S("perte de temps"),
    S("pire"), S("probl") \o <<"U+00E8">> \o S("me"),
    S("p") \o <<"U+00E9">> \o S("rim") \o <<"U+00E9">>, S("superficiel"), S("terrible"), S("vide"),
    S("walo"), <<"U+0633", "U+064A", "U+0621">>, <<"U+0633", "U+064A", "U+0626", "U+0629">>,
    <<"U+0636", "U+0639", "U+064A", "U+0641">>, <<"U+063A", "U+064A", "U+0631">>,
    <<"U+0642", "U+062F", "U+064A", "U+0645">>, <<"U+0644", "U+0627">>,
    <<"U+0645", "U+0636", "U+064A", "U+0639", "U+0629">>
  }

SCORE_CAP      == 80
SCORE_BASE     == 50
SCORE_STEP     == 15
CONF_CAP       == 75
CONF_STEP      == 10

pos_count(text) == CountIn(positive_words, Lower(text))
neg_count(text) == CountIn(negative_words, Lower(text))

\* The decision of _rule_based_sentiment on the two hit counts.
MutRuleBasedOnCounts(pos, neg) ==
  IF neg > pos
  THEN [sentiment  |-> NEGATIVE,
        score      |-> -Min(SCORE_CAP, SCORE_BASE + neg * SCORE_STEP),
        confidence |-> JNum(Min(CONF_CAP, SCORE_BASE + neg * CONF_STEP)),
        label      |-> S("negative (rule-based)")]
  ELSE IF pos > neg
  THEN [sentiment  |-> POSITIVE,
        score      |-> Min(SCORE_CAP, SCORE_BASE + pos * SCORE_STEP),
        confidence |-> JNum(Min(CONF_CAP, SCORE_BASE + pos * CONF_STEP)),
        label      |-> S("positive (rule-based)")]
  ELSE [sentiment  |-> NEUTRAL,
        score      |-> 0,
        confidence |-> JNum(50),
        label      |-> S("neutral (rule-based)")]

RuleBasedOnCounts(pos, neg) ==
  IF neg > 0 /\ neg >= pos
  THEN [sentiment  |-> NEGATIVE,
        score      |-> -Min(SCORE_CAP, SCORE_BASE + neg * SCORE_STEP),
        confidence |-> JNum(Min(CONF_CAP, SCORE_BASE + neg * CONF_STEP)),
        label      |-> S("negative (rule-based)")]
  ELSE IF pos > neg
  THEN [sentiment  |-> POSITIVE,
        score      |-> Min(SCORE_CAP, SCORE_BASE + pos * SCORE_STEP),
        confidence |-> JNum(Min(CONF_CAP, SCORE_BASE + pos * CONF_STEP)),
        label      |-> S("positive (rule-based)")]
  ELSE [sentiment  |-> NEUTRAL,
        score      |-> 0,
        confidence |-> JNum(50),
        label      |-> S("neutral (rule-based)")]

\* _rule_based_sentiment
RuleBasedSentiment(text) == RuleBasedOnCounts(pos_count(text), neg_count(text))

EmptyResult ==
  [sentiment |-> NEUTRAL, score |-> 0, confidence |-> JNum(0), label |-> S("neutral")]

\* analyze, given the outcome of the remote call it makes (if it makes one).
AnalyzeResult(text, language, outcome) ==
  IF IsBlank(text) THEN EmptyResult
  ELSE LET result == QueryApi(outcome)
           norm   == NormalizeSentiment(result)
       IN  IF Truthy(result) /\ ~norm.raised
           THEN [sentiment  |-> norm.sentiment,
                 score      |-> norm.score,
                 confidence |-> Get(result, "score", JNum(0)),
                 label      |-> Get(result, "label", JStr(S("neutral"))).v]
           ELSE RuleBasedSentiment(text)

\* The remote calls analyze issues: none for a blank text, else one.
MutAnalyzeRequests(text, language) ==
  IF text = <<>> THEN <<>> ELSE <<Request(ModelFor(language), text)>>
AnalyzeRequests(text, language) ==
  IF IsBlank(text) THEN <<>> ELSE <<Request(ModelFor(language), text)>>

-----------------------------------------------------------------------------
(* Inputs and actions of the SentimentAnalyzer specification               *)

MaxSentChunks == 3
MaxBatch      == 2

\* Sample texts: every concatenation of at most MaxSentChunks of these pieces
\* (two positive words, one of them capitalised, three negative words, one of
\* them Arabic, and a space).
SentChunks ==
  {S("bon"), S("Top"), S("mal"), S("nul"), <<"U+0644", "U+0627">>, S(" ")}
SentTexts == ConcatsUpTo(SentChunks, MaxSentChunks)

LanguageInputs == {FR, AR, DARIJA, "EN"}

Classification(label, score) == JObj([label |-> label, score |-> score])

RemoteLabels ==
  {S("POSITIVE"), S("NEGATIVE"), S("neutral"), S("LABEL_0"), S("1_star"), S("2_stars"),
   S("mixed")}
RemoteScores == {54, 55, 100, 150}

\* Bodies of a 200 answer: the classifications a model can answer, flat or nested
\* one level, and bodies of another shape.
WellFormedBodies ==
  {JList(<<Classification(JStr(l), JNum(n))>>) : l \in RemoteLabels, n \in RemoteScores}
  \cup {JList(<<JList(<<Classification(JStr(l), JNum(n)),
                        Classification(JStr(S("other")), JNum(100 - n))>>)>>) :
          l \in {S("POSITIVE"), S("1_star")}, n \in {54, 55}}
OtherBodies ==
  { NotJson,
    JObj([error |-> JStr(S("Model is loading"))]),
    JNull,
    JList(<<>>),
    JList(<<JList(<<>>)>>),
    JList(<<JObj(<<>>)>>),
    JList(<<JNull>>),
    JList(<<JStr(S("positive"))>>),
    JList(<<JNum(1)>>),
    JList(<<JList(<<JList(<<Classification(JStr(S("POSITIVE")), JNum(100))>>)>>)>>),
    JList(<<JObj([label |-> JStr(S("POSITIVE"))])>>),
    JList(<<JObj([label |-> JStr(S("neutral"))])>>),
    JList(<<JObj([score |-> JNum(100)])>>),
    JList(<<JList(<<JObj([score |-> JNum(12), token_str |-> JStr(S("mezyan"))])>>)>>),
    JList(<<Classification(JNum(1), JNum(100))>>),
    JList(<<Classification(JNull, JNum(100))>>),
    JList(<<Classification(JStr(S("NEGATIVE")), JStr(S("high")))>>),
    JList(<<Classification(JStr(S("NEGATIVE")), JNull)>>),
    JList(<<Classification(JStr(S("neutral")), JStr(S("high")))>>) }

Exception == [kind |-> "exception"]
Response(status, body) == [kind |-> "response", status |-> status, body |-> body]

FailedCalls ==
  { Exception,
    Response(503, NotJson),
    Response(404, JList(<<Classification(JStr(S("POSITIVE")), JNum(100))>>)) }
RemoteOutcomes ==
  FailedCalls \cup {Response(HTTP_OK, b) : b \in WellFormedBodies \cup OtherBodies}

\* No call was made, so there is no outcome.
NoOutcome == [kind |-> "nocall"]
OutcomeSeen(text, outcome) == IF IsBlank(text) THEN NoOutcome ELSE outcome

BatchIdle == [pc |-> "idle"]

\* One call of analyze(text, language).
Analyze ==
  /\ sa = NoCall /\ batch = BatchIdle
  /\ \E text \in SentTexts :
       \E language \in LanguageInputs, outcome \in RemoteOutcomes :
         sa' = [op       |-> "analyze",
                text     |-> text,
                language |-> language,
                outcome  |-> OutcomeSeen(text, outcome),
                requests |-> AnalyzeRequests(text, language),
                result   |-> AnalyzeResult(text, language, outcome)]
  /\ UNCHANGED <<batch, ld, tc, cl, te, db, session, nlp, runs, uploads>>

BatchTexts     == {S(" "), S("bon"), S("mal")}
BatchLanguages == {FR, DARIJA}
BatchOutcomes  ==
  { Exception,
    Response(503, NotJson),
    Response(HTTP_OK, JList(<<JList(<<Classification(JStr(S("POSITIVE")), JNum(100))>>)>>)),
    Response(HTTP_OK, JList(<<Classification(JStr(S("NEGATIVE")), JNum(55))>>)) }

SeqsUpTo(items, n) == UNION {[1..k -> items] : k \in 0..n}

\* analyze_batch(texts, languages) is called: results = [].
AnalyzeBatchCall ==
  /\ sa = NoCall /\ batch = BatchIdle
  /\ \E texts \in SeqsUpTo(BatchTexts, MaxBatch), languages \in SeqsUpTo(BatchLanguages, MaxBatch) :
       batch' = [pc        |-> "loop",
                 texts     |-> texts,
                 languages |-> languages,
                 outcomes  |-> <<>>,
                 requests  |-> <<>>,
                 results   |-> <<>>]
  /\ UNCHANGED <<sa, ld, tc, cl, te, db, session, nlp, runs, uploads>>

\* The pairs zip(texts, languages) yields.
ZipLen(texts, languages) == Min(Len(texts), Len(languages))

\* One iteration of the loop: results.append(self.analyze(text, lang)).
MutAnalyzeBatchIter ==
  /\ batch.pc = "loop"
  /\ Len(batch.results) < ZipLen(batch.texts, batch.languages)
  /\ LET i == Len(batch.results) + 1
         text == batch.texts[i]
         lang == batch.languages[i]
         failedBefore == \E j \in 1..Len(batch.outcomes) : batch.outcomes[j] \in FailedCalls
     IN  \E outcome \in BatchOutcomes :
           batch' = [batch EXCEPT
                       !.outcomes = Append(@, OutcomeSeen(text, outcome)),
                       !.requests = @ \o AnalyzeRequests(text, lang),
                       !.results  = Append(@, IF failedBefore
                                              THEN RuleBasedSentiment(text)
                                              ELSE AnalyzeResult(text, lang, outcome))]
  /\ UNCHANGED <<sa, ld, tc, cl, te, db, session, nlp, runs, uploads>>

AnalyzeBatchIter ==
  /\ batch.pc = "loop"
  /\ Len(batch.results) < ZipLen(batch.texts, batch.languages)
  /\ LET i == Len(batch.results) + 1
         text == batch.texts[i]
         lang == batch.languages[i]
     IN  \E outcome \in BatchOutcomes :
           batch' = [batch EXCEPT
                       !.outcomes = Append(@, OutcomeSeen(text, outcome)),
                       !.requests = @ \o AnalyzeRequests(text, lang),
                       !.results  = Append(@, AnalyzeResult(text, lang, outcome))]
  /\ UNCHANGED <<sa, ld, tc, cl, te, db, session, nlp, runs, uploads>>

\* The loop is over: return results.
AnalyzeBatchReturn ==
  /\ batch.pc = "loop"
  /\ Len(batch.results) = ZipLen(batch.texts, batch.languages)
  /\ batch' = [batch EXCEPT !.pc = "returned"]
  /\ UNCHANGED <<sa, ld, tc, cl, te, db, session, nlp, runs, uploads>>

InitIdle ==
  /\ sa = NoCall
  /\ batch = BatchIdle
  /\ ld = NoCall
  /\ tc = NoCall
  /\ cl = NoCall
  /\ te = NoCall
  /\ db = EmptyDatabase
  /\ session = NoPendingWrites
  /\ nlp = NoCall
  /\ runs = <<>>
  /\ uploads = <<>>

NextSentiment ==
  \/ Analyze
  \/ AnalyzeBatchCall
  \/ AnalyzeBatchIter
  \/ AnalyzeBatchReturn

SpecSentiment == InitIdle /\ [][NextSentiment]_vars

-----------------------------------------------------------------------------
(* Claims about SentimentAnalyzer, checked under SpecSentiment             *)

\* The result came from _rule_based_sentiment: its label carries the tag.
IsRuleBased(result) == Contains(result.label, S("(rule-based)"))

\* C1: for every text, language and outcome of the remote call, analyze returns
\* a score in [-1, 1] whose sign agrees with the polarity: positive implies
\* score > 0, negative implies score < 0, neutral implies score = 0.
C1_ScoreInRangeAndSignAgrees ==
  sa.op = "analyze" =>
    LET r == sa.result
    IN  /\ r.score \in -100..100
        /\ r.sentiment = POSITIVE => r.score > 0
        /\ r.sentiment = NEGATIVE => r.score < 0
        /\ r.sentiment = NEUTRAL  => r.score = 0

\* A classification as C2 words it: an object that carries a label and a score.
CarriesLabelAndScore(x) == x.t = "obj" /\ {"label", "score"} \subseteq DOMAIN x.v
ListOfClassifications(b) ==
  b.t = "list" /\ Len(b.v) > 0 /\ \A i \in 1..Len(b.v) : CarriesLabelAndScore(b.v[i])
MalformedBody(b) ==
  ~ \/ ListOfClassifications(b)
    \/ b.t = "list" /\ Len(b.v) > 0 /\ \A i \in 1..Len(b.v) : ListOfClassifications(b.v[i])

\* C2: for every non-empty text, when the remote call fails (exception, timeout,
\* non-200 status) or answers 200 with a malformed body, analyze returns the
\* rule-based result, tagged "(rule-based)" in its label.
C2_FallbackOnFailureOrMalformedBody ==
  ( /\ sa.op = "analyze"
    /\ ~IsBlank(sa.text)
    /\ \/ sa.outcome \in FailedCalls
       \/ sa.outcome.kind = "response" /\ sa.outcome.status = HTTP_OK
            /\ MalformedBody(sa.outcome.body) )
  => /\ sa.result = RuleBasedSentiment(sa.text)
     /\ IsRuleBased(sa.result)

\* C3: analyze_batch over n texts and n languages returns n results in input
\* order; a failed remote call on item i makes result i the rule-based result of
\* text i, and every result j is what analyze(text j, language j) returns on its
\* own for the outcome of its own remote call.
C3_BatchItemsIndependent ==
  (batch.pc = "returned" /\ Len(batch.texts) = Len(batch.languages)) =>
    /\ Len(batch.results) = Len(batch.texts)
    /\ \A j \in 1..Len(batch.texts) :
         /\ batch.results[j] =
              AnalyzeResult(batch.texts[j], batch.languages[j], batch.outcomes[j])
         /\ batch.outcomes[j] \in FailedCalls =>
              batch.results[j] = RuleBasedSentiment(batch.texts[j])

\* A batch of two whose first remote call failed and whose second succeeded: the
\* second result is the remote model's.
C3_Witness ==
  /\ batch.pc = "returned"
  /\ Len(batch.texts) = 2 /\ Len(batch.languages) = 2
  /\ batch.outcomes[1] \in FailedCalls
  /\ IsRuleBased(batch.results[1])
  /\ batch.outcomes[2].kind = "response" /\ batch.outcomes[2].status = HTTP_OK
  /\ batch.results[2].label = S("POSITIVE")

\* C7: in the rule-based fallback the result is negative exactly when
\* neg > 0 and neg >= pos, positive exactly when pos > neg, neutral (score 0,
\* confidence 0.5) exactly when pos = neg = 0; a non-neutral score has magnitude
\* min(0.8, 0.5 + 0.15 * hits) and confidence min(0.75, 0.5 + 0.1 * hits), hits
\* being the count of the winning side.
C7_RuleBasedDecision ==
  (sa.op = "analyze" /\ IsRuleBased(sa.result)) =>
    LET pos  == pos_count(sa.text)
        neg  == neg_count(sa.text)
        r    == sa.result
        hits == IF r.sentiment = NEGATIVE THEN neg ELSE pos
        abs  == IF r.score < 0 THEN -r.score ELSE r.score
    IN  /\ r.sentiment = NEGATIVE <=> (neg > 0 /\ neg >= pos)
        /\ r.sentiment = POSITIVE <=> pos > neg
        /\ r.sentiment = NEUTRAL  <=> (pos = 0 /\ neg = 0)
        /\ r.sentiment = NEUTRAL => (r.score = 0 /\ r.confidence = JNum(50))
        /\ r.sentiment # NEUTRAL =>
             /\ abs = Min(80, 50 + 15 * hits)
             /\ r.confidence = JNum(Min(75, 50 + 10 * hits))
             /\ r.sentiment = NEGATIVE <=> r.score < 0

\* Equal non-zero counts resolved to negative.
C7_Witness ==
  /\ sa.op = "analyze" /\ IsRuleBased(sa.result)
  /\ pos_count(sa.text) = 1 /\ neg_count(sa.text) = 1
  /\ sa.result.sentiment = NEGATIVE /\ sa.result.score = -65

\* A remote answer that analyze handed to _normalize_sentiment: a
\* classification with a text label and a numeric score.
RemoteResult(call) ==
  IF call.op = "analyze" /\ call.outcome.kind = "response" THEN QueryApi(call.outcome) ELSE JNull
IsClassified(call) ==
  /\ RemoteResult(call).t = "obj"
  /\ {"label", "score"} \subseteq DOMAIN RemoteResult(call).v
  /\ RemoteResult(call).v.label.t = "str"
  /\ RemoteResult(call).v.score.t = "num"

\* C21: a remote result whose label carries one of the negative markers
\* ('neg', 'negative', '0', '1_star', '2_stars') is normalised to negative with
\* score minus the confidence when the confidence is at least 0.55, and to
\* neutral with score 0 when it is below.
C21_NegativeMarkerNormalisesNegative ==
  ( /\ IsClassified(sa)
    /\ \E m \in NegativeMarkers : Contains(Lower(RemoteResult(sa).v.label.v), m) )
  => LET confidence == RemoteResult(sa).v.score.v
     IN  IF confidence >= CONFIDENCE_THRESHOLD
         THEN sa.result.sentiment = NEGATIVE /\ sa.result.score = -confidence
         ELSE sa.result.sentiment = NEUTRAL /\ sa.result.score = 0

\* C27: analyze on an empty or whitespace-only text returns neutral with score
\* 0 and confidence 0, posts nothing to the remote service and does not use
\* the rule-based scorer; on any other text it posts exactly one request,
\* whatever the outcome of the call (an exception, which is what a timeout
\* raises, a status other than 200, or a body of any shape).
C27_BlankPostsNothingElseOnePost ==
  (sa.op = "analyze") =>
    IF \A i \in 1..Len(sa.text) : IsSpace(sa.text[i])
    THEN /\ sa.result.sentiment = NEUTRAL
         /\ sa.result.score = 0
         /\ sa.result.confidence = JNum(0)
         /\ sa.requests = <<>>
         /\ sa.outcome = NoOutcome
         /\ ~IsRuleBased(sa.result)
    ELSE /\ Len(sa.requests) = 1
         /\ sa.outcome \in RemoteOutcomes

\* C27 witness: a text of spaces only was analysed; nothing was posted and
\* the result is the neutral one with confidence 0.
C27_Witness ==
  /\ sa.op = "analyze"
  /\ sa.text # <<>> /\ IsBlank(sa.text)
  /\ sa.requests = <<>>
  /\ sa.result = EmptyResult

-----------------------------------------------------------------------------
(* LanguageDetector (services/language_detector.py)                        *)

DARIJA_MARKERS ==
  {
    S("ach"), S("bach"), S("bezzaf"), S("bgha"), S("bghit"), S("bhal"), S("chno"), S("daba"),
    S("dial"), S("dyal"), S("fach"), S("ghi"), S("ghir"), S("had chi"), S("hna"), S("kayn"),
    S("khdam"), S("kheddam"), S("kifach"), S("machi"), S("makaynch"), S("mezyan"), S("mzyan"),
    S("nta"), S("ntina"), S("rah"), S("safi"), S("smiya"), S("u"), S("w-"), S("wach"), S("wakha"),
    S("yallah")
  }

\* \b between positions i-1 and i of s (i in 1..Len(s)+1): exactly one of the
\* two neighbours is a word character.
IsWordAt(s, i) == i >= 1 /\ i <= Len(s) /\ IsWordChar(s[i])
BoundaryAt(s, i) == IsWordAt(s, i - 1) # IsWordAt(s, i)

\* w occurs in s at position i.
OccursAt(s, i, w) == i >= 1 /\ i + Len(w) - 1 <= Len(s) /\ SubSeq(s, i, i + Len(w) - 1) = w

\* \s+\w matched from position p on: one or more spaces, then a word character.
SpacesThenWord(s, p) ==
  \E k \in 1..Len(s) :
    /\ p + k <= Len(s)
    /\ \A m \in p..(p + k - 1) : IsSpace(s[m])
    /\ IsWordChar(s[p + k])

\* \w\s+ matched up to position i - 1: a word character, then one or more spaces.
WordThenSpaces(s, i) ==
  \E k \in 1..Len(s) :
    /\ i - k - 1 >= 1
    /\ \A m \in (i - k)..(i - 1) : IsSpace(s[m])
    /\ IsWordChar(s[i - k - 1])

\* \b(w1|w2|...)\b
SearchWholeWord(s, words) ==
  \E i \in 1..Len(s), w \in words :
    OccursAt(s, i, w) /\ BoundaryAt(s, i) /\ BoundaryAt(s, i + Len(w))

\* \b(w1|w2|...)\s+\w+
SearchWordThenWord(s, words) ==
  \E i \in 1..Len(s), w \in words :
    OccursAt(s, i, w) /\ BoundaryAt(s, i) /\ SpacesThenWord(s, i + Len(w))

\* \w+\s+(w1|w2|...)\s+\w+
SearchBetweenWords(s, words) ==
  \E i \in 1..Len(s), w \in words :
    OccursAt(s, i, w) /\ WordThenSpaces(s, i) /\ SpacesThenWord(s, i + Len(w))

N_DARIJA_PATTERNS == 6

\* re.search(DARIJA_PATTERNS[k - 1], s, re.IGNORECASE) on a lower-cased s.
PatternMatches(k, s) ==
  CASE k = 1 -> SearchWholeWord(s, {S("ach"), S("chno"), S("kifach"), S("fach"), S("wach")})
    [] k = 2 -> SearchWholeWord(s, {S("daba"), S("bezzaf"), S("mezyan"), S("mzyan")})
    [] k = 3 -> SearchWordThenWord(s, {S("dyal"), S("dial")})
    [] k = 4 -> SearchWholeWord(s, {S("kayn"), S("makaynch")})
    [] k = 5 -> SearchWordThenWord(s, {S("ghir"), S("ghi")})
    [] k = 6 -> SearchBetweenWords(s, {S("dyal"), S("dial")})

darija_count(s)   == CountIn(DARIJA_MARKERS, s)
pattern_matches(s) == Cardinality({k \in 1..N_DARIJA_PATTERNS : PatternMatches(k, s)})

DARIJA_MIN_MARKERS == 2

\* _is_darija
MutIsDarija(s) == darija_count(s) > DARIJA_MIN_MARKERS \/ pattern_matches(s) >= 1

IsDarija(s) == darija_count(s) >= DARIJA_MIN_MARKERS \/ pattern_matches(s) >= 1

\* _has_darija_features
HasDarijaFeatures(s) == darija_count(s) >= 1

\* _detect_by_script
DetectByScript(text) ==
  IF arabic_chars(text) > latin_chars(text)
  THEN IF HasDarijaFeatures(Lower(text)) THEN DARIJA ELSE AR
  ELSE FR

\* The statistical identifier raised instead of answering a code.
IdentifierRaised == "raise"
\* The statistical identifier was not called.
NotConsulted == "not consulted"

\* Whether detect_language reaches the call of the statistical identifier.
ConsultsIdentifier(text) == ~IsBlank(text) /\ ~IsDarija(Lower(text))

\* detect_language, given what the statistical identifier does when called:
\* `detected` is the code it answers, or IdentifierRaised.
MutDetectLanguage(text, detected) ==
  IF IsBlank(text) THEN FR
  ELSE LET text_lower == Lower(text)
       IN  IF IsDarija(text_lower) THEN DARIJA
           ELSE IF detected = IdentifierRaised THEN FR
           ELSE IF detected = "fr" THEN FR
           ELSE IF detected = "ar"
                THEN (IF HasDarijaFeatures(text_lower) THEN DARIJA ELSE AR)
           ELSE FR

DetectLanguage(text, detected) ==
  IF IsBlank(text) THEN FR
  ELSE LET text_lower == Lower(text)
       IN  IF IsDarija(text_lower) THEN DARIJA
           ELSE IF detected = IdentifierRaised THEN DetectByScript(text)
           ELSE IF detected = "fr" THEN FR
           ELSE IF detected = "ar"
                THEN (IF HasDarijaFeatures(text_lower) THEN DARIJA ELSE AR)
           ELSE IF detected \in {"en", "es", "it"} THEN FR
           ELSE FR

\* A float as the ratio num / den (den > 0).
Ratio(num, den) == [num |-> num, den |-> den]

DARIJA_SCORE_DIVISOR == 5
DARIJA_MIN_CONFIDENCE == 60
DEFAULT_FR_CONFIDENCE == 70
BLANK_CONFIDENCE == 50

\* The probability detect_langs reports for 'fr': that of the first entry whose
\* language is 'fr', or the default when there is none.
RECURSIVE FrenchProb(_)
FrenchProb(langs) ==
  IF langs = <<>> THEN DEFAULT_FR_CONFIDENCE
  ELSE IF Head(langs).lang = "fr" THEN Head(langs).prob
  ELSE FrenchProb(Tail(langs))

\* Whether get_confidence reaches the call of detect_langs.
ConsultsDetectLangs(text, detected_lang) ==
  ~IsBlank(text) /\ detected_lang \notin {DARIJA, AR}

\* get_confidence, given what detect_langs does when called: `langs` is the
\* list it answers (each entry a language code and a probability in
\* hundredths), or IdentifierRaised.
GetConfidence(text, detected_lang, langs) ==
  IF IsBlank(text) THEN Ratio(BLANK_CONFIDENCE, 100)
  ELSE LET text_lower == Lower(text)
       IN  IF detected_lang = DARIJA
           THEN LET markers  == darija_count(text_lower)
                    patterns == pattern_matches(text_lower)
                    \* (markers + patterns) / 5, in hundredths
                    score    == Min(100, ((markers + patterns) * 100) \div DARIJA_SCORE_DIVISOR)
                IN  Ratio(Max(DARIJA_MIN_CONFIDENCE, score), 100)
           ELSE IF detected_lang = AR
           THEN IF total_chars(text) > 0
                THEN Ratio(arabic_chars(text), total_chars(text))
                ELSE Ratio(50, 100)
           ELSE IF langs = IdentifierRaised THEN Ratio(DEFAULT_FR_CONFIDENCE, 100)
                ELSE Ratio(FrenchProb(langs), 100)

-----------------------------------------------------------------------------
(* Inputs and actions of the LanguageDetector specification                *)

MaxLangChunks == 3

\* Sample texts: every concatenation of at most MaxLangChunks of these pieces:
\* Latin words with and without Darija markers, an Arabic word, an Arabic-Indic
\* digit with an Arabic question mark and a vowel mark, and a space.
LangChunks ==
  { S("bach"), S("rah"), S("Ach"), S("dyal"), S("sol"), S(" "),
    <<"U+062C", "U+064A", "U+062F">>,
    <<"U+0661", "U+061F", "U+064E">> }
LangTexts == ConcatsUpTo(LangChunks, MaxLangChunks)

\* What the statistical identifier may do on a text.
DetectOutcomes == {"fr", "ar", "en", "es", "it", "de", "so", IdentifierRaised}

Language(lang, prob) == [lang |-> lang, prob |-> prob]
DetectLangsOutcomes ==
  { IdentifierRaised,
    <<Language("fr", 100)>>,
    <<Language("en", 57), Language("fr", 42)>>,
    <<Language("ar", 100)>>,
    <<Language("it", 71), Language("fr", 0)>> }

ConfidenceLabels == {FR, AR, DARIJA}

\* One call of detect_language(text).
CallDetectLanguage ==
  /\ ld = NoCall
  /\ \E text \in LangTexts :
       \E detected \in DetectOutcomes :
         ld' = [op         |-> "detect_language",
                text       |-> text,
                identifier |-> IF ConsultsIdentifier(text) THEN detected ELSE NotConsulted,
                result     |-> DetectLanguage(text, detected)]
  /\ UNCHANGED <<sa, batch, tc, cl, te, db, session, nlp, runs, uploads>>

\* One call of get_confidence(text, detected_lang).
CallGetConfidence ==
  /\ ld = NoCall
  /\ \E text \in LangTexts :
       \E detected_lang \in ConfidenceLabels, langs \in DetectLangsOutcomes :
         ld' = [op            |-> "get_confidence",
                text          |-> text,
                detected_lang |-> detected_lang,
                identifier    |-> IF ConsultsDetectLangs(text, detected_lang)
                                  THEN langs ELSE NotConsulted,
                result        |-> GetConfidence(text, detected_lang, langs)]
  /\ UNCHANGED <<sa, batch, tc, cl, te, db, session, nlp, runs, uploads>>

NextLang ==
  \/ CallDetectLanguage
  \/ CallGetConfidence

SpecLang == InitIdle /\ [][NextLang]_vars

-----------------------------------------------------------------------------
(* Claims about LanguageDetector, checked under SpecLang                   *)

\* C4: for every text and every accepted language label, get_confidence
\* returns a value in [0, 1]; in particular the AR confidence (characters in the
\* Arabic range over alphabetic characters) never exceeds 1.
C4_ConfidenceInUnitInterval ==
  ld.op = "get_confidence" =>
    /\ ld.result.den > 0
    /\ 0 <= ld.result.num
    /\ ld.result.num <= ld.result.den

\* C5: detect_language returns one of FR, AR, DARIJA for every text and every
\* behaviour of the statistical identifier; empty or whitespace-only text yields
\* FR, and a failure of the identifier yields the result of the character-script
\* heuristic.
C5_DetectLanguageTotal ==
  ld.op = "detect_language" =>
    /\ ld.result \in {FR, AR, DARIJA}
    /\ IsBlank(ld.text) => ld.result = FR
    /\ ld.identifier = IdentifierRaised => ld.result = DetectByScript(ld.text)

\* The identifier failed on a text with more Arabic than Latin characters and
\* the script heuristic answered AR.
C5_Witness ==
  /\ ld.op = "detect_language"
  /\ ld.identifier = IdentifierRaised
  /\ arabic_chars(ld.text) > latin_chars(ld.text)
  /\ ld.result = AR

\* C6: a text whose lower-cased form contains at least two distinct Darija
\* markers is detected as DARIJA, whatever its script, and the statistical
\* identifier is not consulted.
C6_TwoMarkersIsDarija ==
  (ld.op = "detect_language" /\ darija_count(Lower(ld.text)) >= 2) =>
    /\ ld.result = DARIJA
    /\ ld.identifier = NotConsulted

\* Exactly two markers, no pattern match, in a text that is mostly Arabic script.
C6_Witness ==
  /\ ld.op = "detect_language"
  /\ darija_count(Lower(ld.text)) = 2
  /\ pattern_matches(Lower(ld.text)) = 0
  /\ arabic_chars(ld.text) > latin_chars(ld.text)
  /\ ld.result = DARIJA

-----------------------------------------------------------------------------
(* ThemeCategorizer (services/theme_categorizer.py)                        *)

QUALITE == S("Qualit") \o <<"U+00E9">> \o S(" de la Formation")
COMPETENCES == S("Comp") \o <<"U+00E9">> \o S("tences du Formateur")
ORGANISATION == S("Organisation et Logistique")
APPLICABILITE == S("Applicabilit") \o <<"U+00E9">> \o S(" et Utilit") \o <<"U+00E9">>

\* CATEGORIES, in the order the dict is iterated.
CATEGORY_ORDER == <<QUALITE, COMPETENCES, ORGANISATION, APPLICABILITE>>

KEYWORDS_FR(category) ==
  CASE category = QUALITE ->
      {
        S("formation"), S("contenu"), S("qualit") \o <<"U+00E9">>, S("niveau"), S("profondeur"),
        S("structur") \o <<"U+00E9">>, S("organis") \o <<"U+00E9">>, S("excellent"), S("bon"),
        S("mauvais"), S("nul"), S("obsol") \o <<"U+00E8">> \o S("te"),
        S("p") \o <<"U+00E9">> \o S("rim") \o <<"U+00E9">>, S("nouveau"), S("clair"),
        S("th") \o <<"U+00E9">> \o S("orique"), S("pratique"), S("exemples"), S("exercices"),
        S("cas")
      }
    [] category = COMPETENCES ->
      {
        S("formateur"), S("instructeur"), S("prof"), S("enseignant"),
        S("comp") \o <<"U+00E9">> \o S("tent"), S("incomp") \o <<"U+00E9">> \o S("tent"),
        S("pr") \o <<"U+00E9">> \o S("par") \o <<"U+00E9">>, S("professionnel"), S("dynamique"),
        S("passionn") \o <<"U+00E9">>, S("engageant"), S("monotone"),
        S("ma") \o <<"U+00EE">> \o S("trise"), S("expert"),
        S("exp") \o <<"U+00E9">> \o S("rience"), S("p") \o <<"U+00E9">> \o S("dagogique"),
        S("communication")
      }
    [] category = ORGANISATION ->
      {
        S("logistique"), S("organisation"), S("organis") \o <<"U+00E9">>, S("salle"),
        <<"U+00E9">> \o S("quipement"), S("mat") \o <<"U+00E9">> \o S("riel"), S("supports"),
        S("horaire"), S("temps"), S("dur") \o <<"U+00E9">> \o S("e"), S("pause"), S("accueil"),
        S("r") \o <<"U+00E9">> \o S("servation"), S("planification"), S("coordination"),
        S("infrastructure")
      }
    [] category = APPLICABILITE ->
      {
        S("applicable"), S("applicabilit") \o <<"U+00E9">>, S("utile"), S("pratique"),
        S("concret"), S("r") \o <<"U+00E9">> \o S("aliste"), S("pertinent"), S("efficace"),
        S("recommande"), S("valeur"),
        S("b") \o <<"U+00E9">> \o S("n") \o <<"U+00E9">> \o S("fice"), S("impact"),
        S("r") \o <<"U+00E9">> \o S("sultat"), S("am") \o <<"U+00E9">> \o S("lioration"),
        S("comp") \o <<"U+00E9">> \o S("tences"), S("apprises"),
        S("acqu") \o <<"U+00E9">> \o S("rir")
      }

KEYWORDS_AR(category) ==
  CASE category = QUALITE ->
      {
        <<"U+062A", "U+062F", "U+0631", "U+064A", "U+0628">>,
        <<"U+0645", "U+062D", "U+062A", "U+0648", "U+0649">>,
        <<"U+0627", "U+0644", "U+0645", "U+062D", "U+062A", "U+0648", "U+0649">>,
        <<"U+062C", "U+0648", "U+062F", "U+0629">>,
        <<"U+0645", "U+0645", "U+062A", "U+0627", "U+0632">>, <<"U+062C", "U+064A", "U+062F">>,
        <<"U+0633", "U+064A", "U+0621">>, <<"U+0642", "U+062F", "U+064A", "U+0645">>,
        <<"U+062C", "U+062F", "U+0627", "U+064B">>, <<"U+0648", "U+0627", "U+0636", "U+062D">>,
        <<"U+0645", "U+0641", "U+064A", "U+062F">>, <<"U+0646", "U+0638", "U+0631", "U+064A">>,
        <<"U+0639", "U+0645", "U+0644", "U+064A">>,
        <<"U+0623", "U+0645", "U+062B", "U+0644", "U+0629">>
      }
    [] category = COMPETENCES ->
      {
        <<"U+0645", "U+062F", "U+0631", "U+0628">>,
        <<"U+0627", "U+0644", "U+0645", "U+062F", "U+0631", "U+0628">>,
        <<"U+0645", "U+0639", "U+0644", "U+0645">>,
        <<"U+0645", "U+062D", "U+062A", "U+0631", "U+0641">>,
        <<"U+0645", "U+0624", "U+0647", "U+0644">>, <<"U+062E", "U+0628", "U+0631", "U+0629">>,
        <<"U+0634", "U+0631", "U+062D">>, <<"U+064A", "U+0634", "U+0631", "U+062D">>,
        <<"U+062A", "U+0641", "U+0633", "U+064A", "U+0631">>,
        <<"U+0645", "U+0633", "U+062A", "U+0639", "U+062F">>,
        <<"U+062C", "U+0627", "U+0647", "U+0632">>
      }
    [] category = ORGANISATION ->
      {
        <<"U+062A", "U+0646", "U+0638", "U+064A", "U+0645">>,
        <<"U+0642", "U+0627", "U+0639", "U+0629">>,
        <<"U+0627", "U+0644", "U+0642", "U+0627", "U+0639", "U+0629">>,
        <<"U+0645", "U+0643", "U+0627", "U+0646">>, <<"U+0648", "U+0642", "U+062A">>,
        <<"U+0627", "U+0644", "U+0648", "U+0642", "U+062A">>,
        <<"U+0633", "U+0627", "U+0639", "U+0627", "U+062A">>, <<"U+0645", "U+062F", "U+0629">>,
        <<"U+0645", "U+0631", "U+0627", "U+0641", "U+0642">>,
        <<"U+0645", "U+0639", "U+062F", "U+0627", "U+062A">>, <<"U+0635", "U+0648", "U+062A">>
      }
    [] category = APPLICABILITE ->
      {
        <<"U+062A", "U+0637", "U+0628", "U+064A", "U+0642">>,
        <<"U+0627", "U+0644", "U+062A", "U+0637", "U+0628", "U+064A", "U+0642">>,
        <<"U+0639", "U+0645", "U+0644", "U+064A">>, <<"U+0645", "U+0641", "U+064A", "U+062F">>,
        <<"U+0641", "U+0627", "U+0626", "U+062F", "U+0629">>,
        <<"U+0646", "U+062A", "U+064A", "U+062C", "U+0629">>,
        <<"U+062A", "U+062D", "U+0633", "U+064A", "U+0646">>,
        <<"U+0645", "U+0647", "U+0627", "U+0631", "U+0627", "U+062A">>,
        <<"U+0627", "U+0633", "U+062A", "U+0641", "U+062F", "U+062A">>,
        <<"U+0627", "U+0633", "U+062A", "U+0641", "U+0627", "U+062F", "U+0629">>,
        <<"U+0648", "U+0627", "U+0642", "U+0639", "U+064A">>
      }

KEYWORDS_DARIJA(category) ==
  CASE category = QUALITE ->
      {
        S("formation"), S("contenu"), S("niveau"), S("mezyana"), S("mzyana"), S("khayba"),
        S("top"), S("zina"), S("practique"), S("exemples")
      }
    [] category = COMPETENCES ->
      {
        S("formateur"), S("prof"), S("instructor"), S("maalem"), S("professionnel"), S("kamel"),
        S("ma3arafch"), S("khatar")
      }
    [] category = ORGANISATION ->
      {
        S("organisation"), S("qa3a"), S("blassa"), S("waqt"), S("lwaqt"), S("ma9an")
      }
    [] category = APPLICABILITE ->
      {
        S("practique"), S("fayda"), S("nafed"),
        <<"U+0633", "U+062A", "U+0641", "U+062F", "U+062A">>, S("3jbni"), S("mazyan"),
        S("t3allemt"), <<"U+0627", "U+0633", "U+062A", "U+0641", "U+062F", "U+062A">>
      }

\* The keyword list categorize_theme selects for a language (FR when the
\* language is none of the three).
RelevantKeywords(category, language) ==
  CASE language = FR     -> KEYWORDS_FR(category)
    [] language = AR     -> KEYWORDS_AR(category)
    [] language = DARIJA -> KEYWORDS_DARIJA(category)
    [] OTHER             -> KEYWORDS_FR(category)

\* `keyword in theme_lower or theme_lower in keyword` for some keyword.
CategoryMatches(category, theme_lower, language) ==
  \E keyword \in RelevantKeywords(category, language) :
    Contains(theme_lower, keyword) \/ Contains(keyword, theme_lower)

\* categorize_theme: the first category of CATEGORY_ORDER that matches, else
\* the first category.
MutCategorizeTheme(theme_name, language) ==
  LET theme_lower == Lower(theme_name)
      matching == {k \in 1..Len(CATEGORY_ORDER) :
                     CategoryMatches(CATEGORY_ORDER[k], theme_lower, language)}
  IN  IF matching = {} THEN QUALITE
      ELSE CATEGORY_ORDER[CHOOSE k \in matching : \A m \in matching : k >= m]
CategorizeTheme(theme_name, language) ==
  LET theme_lower == Lower(theme_name)
      matching == {k \in 1..Len(CATEGORY_ORDER) :
                     CategoryMatches(CATEGORY_ORDER[k], theme_lower, language)}
  IN  IF matching = {} THEN QUALITE
      ELSE CATEGORY_ORDER[CHOOSE k \in matching : \A m \in matching : k <= m]

\* Binary floating point (IEEE 754 double), as far as the percentage needs it.
\* A natural number of any size is the sequence of its binary digits, most
\* significant first and without leading zeros (<<>> is 0); a double is
\* [bits, scale], the value bits / 2^scale with at most MantissaBits digits.
MantissaBits == 53

RECURSIVE BitsOf(_)
BitsOf(n) == IF n = 0 THEN <<>> ELSE Append(BitsOf(n \div 2), n % 2)

RECURSIVE StripZeros(_)
StripZeros(bits) ==
  IF bits # <<>> /\ Head(bits) = 0 THEN StripZeros(Tail(bits)) ELSE bits

Zeros(n) == [i \in 1..n |-> 0]

\* bits * factor + carry, for a small factor; the digits are handled from the
\* least significant one.
RECURSIVE TimesSmall(_, _, _)
TimesSmall(bits, factor, carry) ==
  IF carry = 0 /\ bits = <<>> THEN <<>>
  ELSE LET v == (IF bits = <<>> THEN 0 ELSE bits[Len(bits)] * factor) + carry
       IN  Append(TimesSmall(SubSeq(bits, 1, Len(bits) - 1), factor, v \div 2), v % 2)

\* -1, 0 or 1 as a < b, a = b or a > b.
RECURSIVE CompareBits(_, _)
CompareBits(a, b) ==
  IF Len(a) # Len(b) THEN (IF Len(a) < Len(b) THEN -1 ELSE 1)
  ELSE IF a = <<>> THEN 0
  ELSE IF Head(a) # Head(b) THEN (IF Head(a) < Head(b) THEN -1 ELSE 1)
  ELSE CompareBits(Tail(a), Tail(b))

\* The double nearest to bits / 2^scale (round to nearest, ties to even);
\* sticky tells that the exact value is a little more than bits / 2^scale.
RoundToDouble(bits, scale, sticky) ==
  IF Len(bits) <= MantissaBits THEN [bits |-> bits, scale |-> scale]
  ELSE LET kept    == SubSeq(bits, 1, MantissaBits)
           dropped == SubSeq(bits, MantissaBits + 1, Len(bits))
           more    == sticky \/ \E i \in 2..Len(dropped) : dropped[i] = 1
           up      == dropped[1] = 1 /\ (more \/ kept[MantissaBits] = 1)
           rounded == IF up THEN TimesSmall(kept, 1, 1) ELSE kept
       IN  IF Len(rounded) > MantissaBits
           THEN [bits |-> SubSeq(rounded, 1, MantissaBits), scale |-> scale - Len(dropped) - 1]
           ELSE [bits |-> rounded, scale |-> scale - Len(dropped)]

\* The binary digits of part / total: `bits` holds those of the integer part,
\* and digits of the fraction are added until MantissaBits + 1 significant
\* ones are there or the division is exact. The result is the digits and the
\* remainder left.
RECURSIVE QuotientBits(_, _, _)
QuotientBits(bits, remainder, total) ==
  IF remainder = 0 \/ Len(StripZeros(bits)) > MantissaBits THEN <<bits, remainder>>
  ELSE LET digit == IF 2 * remainder >= total THEN 1 ELSE 0
       IN  QuotientBits(Append(bits, digit), 2 * remainder - digit * total, total)

\* part / total in floating point.
FloatDivide(part, total) ==
  LET whole == BitsOf(part \div total)
      q     == QuotientBits(whole, part % total, total)
  IN  RoundToDouble(StripZeros(q[1]), Len(q[1]) - Len(whole), q[2] # 0)

\* x * 100 in floating point.
FloatTimes100(x) == RoundToDouble(TimesSmall(x.bits, 100, 0), x.scale, FALSE)

\* x compared with the fraction numerator / denominator (a small denominator).
CompareToFraction(x, numerator, denominator) ==
  CompareBits(TimesSmall(x.bits, denominator, 0) \o Zeros(0 - x.scale),
              BitsOf(numerator) \o Zeros(x.scale))

MutRoundPercentTenths(part, total) ==
  LET q == (100 * part) \div total
      r == (100 * part) % total
  IN  10 * (IF 2 * r < total THEN q
            ELSE IF 2 * r > total THEN q + 1
            ELSE IF q % 2 = 0 THEN q ELSE q + 1)
\* round((part / total) * 100, 1) in tenths of a percent. The quotient and the
\* product are floating point operations: x is the percentage up to their
\* rounding errors, which are far smaller than a twentieth, so that with q the
\* whole tenths of the exact percentage the tenth nearest to x is q or q + 1.
\* round(x, 1) is the tenth nearest to the double x, the even one when x is
\* exactly half way (23 of 80 is 28.7: x is 28.749999999999996).
RoundPercentTenths(part, total) ==
  LET q == (1000 * part) \div total
      x == FloatTimes100(FloatDivide(part, total))
      side == CompareToFraction(x, 2 * q + 1, 20)
  IN  IF side < 0 THEN q
      ELSE IF side > 0 THEN q + 1
      ELSE IF q % 2 = 0 THEN q ELSE q + 1

\* The entries of themes(rows) whose category is `category`, in the order of
\* rows; categories[i] is the category of rows[i].
RECURSIVE ThemesOf(_, _, _)
ThemesOf(category, rows, categories) ==
  IF rows = <<>> THEN <<>>
  ELSE LET theme == Head(rows)
           rest  == ThemesOf(category, Tail(rows), Tail(categories))
       IN  IF Head(categories) = category
           THEN <<[name |-> theme.theme_name, frequency |-> theme.frequency,
                   language |-> theme.language]>> \o rest
           ELSE rest

RECURSIVE SumFrequency(_)
SumFrequency(themes) ==
  IF themes = <<>> THEN 0 ELSE Head(themes).frequency + SumFrequency(Tail(themes))

\* get_categorized_themes on the rows the query returned.
GetCategorizedThemes(rows) ==
  LET categories == [i \in 1..Len(rows) |->
                       CategorizeTheme(rows[i].theme_name, rows[i].language)]
      themes == [c \in {QUALITE, COMPETENCES, ORGANISATION, APPLICABILITE} |->
                   ThemesOf(c, rows, categories)]
      total_frequency ==
        SumFrequency(themes[QUALITE]) + SumFrequency(themes[COMPETENCES])
          + SumFrequency(themes[ORGANISATION]) + SumFrequency(themes[APPLICABILITE])
  IN  [c \in {QUALITE, COMPETENCES, ORGANISATION, APPLICABILITE} |->
         [count           |-> Len(themes[c]),
          total_frequency |-> SumFrequency(themes[c]),
          themes          |-> themes[c],
          percentage      |-> IF total_frequency > 0
                              THEN RoundPercentTenths(SumFrequency(themes[c]), total_frequency)
                              ELSE 0]]

\* db.query(Theme).order_by(desc(Theme.frequency)): every order of the table
\* by non-increasing frequency (rows of equal frequency come in any order).
RECURSIVE OrderedByFrequency(_)
OrderedByFrequency(table) ==
  IF table = {} THEN {<<>>}
  ELSE LET top == {r \in table : \A o \in table : r.frequency >= o.frequency}
       IN  UNION {{<<r>> \o rest : rest \in OrderedByFrequency(table \ {r})} : r \in top}

\* ... .limit(top_n).all()
QueryTopThemes(table, top_n) ==
  {SubSeq(rows, 1, Min(top_n, Len(rows))) : rows \in OrderedByFrequency(table)}

-----------------------------------------------------------------------------
(* Inputs and actions of the ThemeCategorizer specification                *)

MaxThemes == 4

Theme(theme_name, language, frequency) ==
  [theme_name |-> theme_name, language |-> language, frequency |-> frequency]

\* (name, language) pairs of the sample theme tables: one theme per category,
\* one that matches no keyword, and a Darija one.
ThemeKeys ==
  { <<S("formation"), FR>>, <<S("Formateur"), FR>>, <<S("salle"), FR>>, <<S("utile"), FR>>,
    <<S("divers"), FR>>, <<S("lwaqt"), DARIJA>> }
FrequencyValues == {5, 17, 23}

\* The theme tables: at most MaxThemes rows, one per (name, language).
ThemeTables ==
  UNION { { {Theme(k[1], k[2], f[k]) : k \in keys} : f \in [keys -> FrequencyValues] } :
          keys \in {ks \in SUBSET ThemeKeys : Cardinality(ks) <= MaxThemes} }

TopNs == {0, 2, 50}

\* One call of get_categorized_themes(db, top_n).
CallGetCategorizedThemes ==
  /\ tc = NoCall
  /\ \E table \in ThemeTables, top_n \in TopNs :
       \E rows \in QueryTopThemes(table, top_n) :
         tc' = [op     |-> "get_categorized_themes",
                table  |-> table,
                top_n  |-> top_n,
                rows   |-> rows,
                result |-> GetCategorizedThemes(rows)]
  /\ UNCHANGED <<sa, batch, ld, cl, te, db, session, nlp, runs, uploads>>

NextThemes == CallGetCategorizedThemes

SpecThemes == InitIdle /\ [][NextThemes]_vars

-----------------------------------------------------------------------------
(* Claims about ThemeCategorizer, checked under SpecThemes                 *)

\* Sum of the four percentages of a result, in tenths of a percent.
PercentageSum(result) ==
  result[QUALITE].percentage + result[COMPETENCES].percentage
    + result[ORGANISATION].percentage + result[APPLICABILITE].percentage
FrequencySum(result) ==
  result[QUALITE].total_frequency + result[COMPETENCES].total_frequency
    + result[ORGANISATION].total_frequency + result[APPLICABILITE].total_frequency
Distance(a, b) == IF a >= b THEN a - b ELSE b - a

\* C8 as stated: whenever the total frequency is greater than 0, the four
\* percentages returned by get_categorized_themes sum to a value within 0.1 of
\* 100.0.
C8_PercentagesSumWithinOneTenth ==
  (tc.op = "get_categorized_themes" /\ FrequencySum(tc.result) > 0) =>
    Distance(PercentageSum(tc.result), 1000) <= 1

\* C8 as amended: whenever the total frequency is greater than 0, each
\* percentage is the category's share of the total rounded to one decimal, and
\* the four percentages sum to a value within 0.2 of 100.0.
C8_PercentagesSumWithinTwoTenths ==
  (tc.op = "get_categorized_themes" /\ FrequencySum(tc.result) > 0) =>
    /\ Distance(PercentageSum(tc.result), 1000) <= 2
    /\ \A c \in DOMAIN tc.result :
         Distance(2 * 1000 * tc.result[c].total_frequency,
                  2 * tc.result[c].percentage * FrequencySum(tc.result))
           <= FrequencySum(tc.result)

\* Four categories with frequencies 23, 23, 17 and 17 of 80:
\* 28.7 + 28.7 + 21.2 + 21.2 = 99.8.
C8_Witness ==
  /\ tc.op = "get_categorized_themes"
  /\ FrequencySum(tc.result) > 0
  /\ Distance(PercentageSum(tc.result), 1000) = 2

-----------------------------------------------------------------------------
(* ClusteringService (clustering_service.py)                               *)
(*                                                                         *)
(* The service reads only len(embeddings); the vectors themselves are      *)
(* consumed by scikit-learn.  An embedding set is therefore its number of  *)
(* rows n, and what scikit-learn answers (a label per row, an inertia per  *)
(* fit, or an exception) is an input of each call.  Optional[int] values   *)
(* are None or Some(i).                                                    *)

None == <<>>
Some(x) == <<x>>

\* settings.MAX_CLUSTERS and settings.DEFAULT_N_CLUSTERS as shipped.
MAX_CLUSTERS == 10
DEFAULT_N_CLUSTERS == 3

ELBOW_MIN_POINTS == 10
ELBOW_SMALL_K == 3
ELBOW_DEFAULT_K == 3
ELBOW_FIRST_K == 2

\* np.diff: consecutive differences, later minus earlier.
Diff(seq) == [i \in 1..(Len(seq) - 1) |-> seq[i + 1] - seq[i]]

\* np.argmax: the 0-based position of the first greatest element.
ArgMax(seq) ==
  (CHOOSE i \in 1..Len(seq) :
     /\ \A j \in 1..Len(seq) : seq[j] <= seq[i]
     /\ \A j \in 1..(i - 1) : seq[j] < seq[i]) - 1

\* The upper end of K_range: min(max_k or settings.MAX_CLUSTERS, n // 2).
ElbowMaxK(n, max_k, max_clusters) ==
  Min(IF max_k = None THEN max_clusters ELSE max_k[1], n \div 2)

\* The number of fits of the scan, len(range(2, max_k + 1)).
ElbowFits(n, max_k, max_clusters) ==
  IF n < ELBOW_MIN_POINTS THEN 0
  ELSE Max(0, ElbowMaxK(n, max_k, max_clusters) - ELBOW_FIRST_K + 1)

\* _optimal_clusters_elbow(embeddings, max_k), given what its scan met: the
\* inertias of the fits for k = 2, 3, ... in scan order, and whether
\* scaler.fit_transform (line 219) or a fit (line 223) raised.  Nothing in
\* the function catches the exception: the call raises it.  Below 10 rows
\* there is no scan.
OptimalClustersElbow(n, max_k, max_clusters, scan) ==
  IF n < ELBOW_MIN_POINTS THEN [raised |-> FALSE, k |-> Min(ELBOW_SMALL_K, n)]
  ELSE IF scan.raised THEN [raised |-> TRUE]
  ELSE IF Len(scan.inertias) >= 2
  THEN [raised |-> FALSE, k |-> ArgMax(Diff(scan.inertias)) + ELBOW_FIRST_K]
  ELSE [raised |-> FALSE, k |-> ELBOW_DEFAULT_K]

\* Outcome of estimator.fit_predict(...): an exception or one label per row.
FitRaised == [raised |-> TRUE]
Fitted(labels) == [raised |-> FALSE, labels |-> labels]

\* np.sum(cluster_labels == label) and list(cluster_labels).count(label).
CountLabel(labels, label) == Cardinality({i \in DOMAIN labels : labels[i] = label})

\* set(cluster_labels)
UniqueLabels(labels) == {labels[i] : i \in DOMAIN labels}

EmptyInfo == <<>>
NOISE == -1

\* The number of clusters cluster_kmeans fits: the explicit parameter, else
\* the configured default, else the elbow estimate.
ResolveK(n_clusters, default_n_clusters, elbow_k) ==
  IF n_clusters # None THEN n_clusters[1]
  ELSE IF default_n_clusters # None THEN default_n_clusters[1]
  ELSE elbow_k

KMeansInfo(k, labels) ==
  [method        |-> "kmeans",
   n_clusters    |-> k,
   cluster_sizes |-> [label \in 0..(k - 1) |-> CountLabel(labels, label)]]

\* cluster_kmeans on n rows with resolved cluster count k, given the outcome
\* of the fit.  (inertia and centroids, floats of the library, are left out
\* of the info.)
MutClusterKMeans(n, k, fit) ==
  IF n = 0 THEN [labels |-> <<>>, info |-> EmptyInfo]
  ELSE IF fit.raised THEN [labels |-> [i \in 1..n |-> NOISE], info |-> EmptyInfo]
  ELSE [labels |-> fit.labels, info |-> KMeansInfo(k, fit.labels)]
ClusterKMeans(n, k, fit) ==
  IF n = 0 THEN [labels |-> <<>>, info |-> EmptyInfo]
  ELSE IF fit.raised THEN [labels |-> [i \in 1..n |-> 0], info |-> EmptyInfo]
  ELSE [labels |-> fit.labels, info |-> KMeansInfo(k, fit.labels)]

MutDBSCANInfo(labels) ==
  LET unique_labels == UniqueLabels(labels)
      n_noise == CountLabel(labels, NOISE)
  IN [method        |-> "dbscan",
      n_clusters    |-> Cardinality(unique_labels),
      n_noise       |-> n_noise,
      cluster_sizes |-> [label \in unique_labels \ {NOISE} |-> CountLabel(labels, label)],
      outliers      |-> n_noise]
DBSCANInfo(labels) ==
  LET unique_labels == UniqueLabels(labels)
      n_noise == CountLabel(labels, NOISE)
  IN [method        |-> "dbscan",
      n_clusters    |-> Cardinality(unique_labels)
                          - (IF NOISE \in unique_labels THEN 1 ELSE 0),
      n_noise       |-> n_noise,
      cluster_sizes |-> [label \in unique_labels \ {NOISE} |-> CountLabel(labels, label)],
      outliers      |-> n_noise]

\* cluster_dbscan on n rows, given the outcome of the fit.
ClusterDBSCAN(n, fit) ==
  IF n = 0 THEN [labels |-> <<>>, info |-> EmptyInfo]
  ELSE IF fit.raised THEN [labels |-> [i \in 1..n |-> NOISE], info |-> EmptyInfo]
  ELSE [labels |-> fit.labels, info |-> DBSCANInfo(fit.labels)]

-----------------------------------------------------------------------------
(* Calls of ClusteringService                                              *)

MaxPoints == 4
MaxElbowPoints == 11

\* Explicit n_clusters arguments, below 1 and above the number of rows too.
NClustersInputs == {None} \cup {Some(k) : k \in -1..(MaxPoints + 1)}

\* Values of settings.DEFAULT_N_CLUSTERS (Optional[int], read from the
\* environment) and of settings.MAX_CLUSTERS.
DefaultNClustersSettings == {Some(DEFAULT_N_CLUSTERS), None, Some(0)}
MaxClustersSettings == {1, 2, 3, MAX_CLUSTERS}
MaxKInputs == {None, Some(4)}

\* What the scan of _optimal_clusters_elbow can meet: every fit records its
\* inertia, or, from 10 rows on, scaler.fit_transform or one of the fits
\* raises after the inertias of the fits before it were recorded.
InertiaValues == {1, 3, 9}
ElbowScans(n, max_k, max_clusters) ==
  LET fits == ElbowFits(n, max_k, max_clusters)
  IN  {[raised |-> FALSE, inertias |-> inertias] : inertias \in [1..fits -> InertiaValues]}
        \cup (IF n < ELBOW_MIN_POINTS THEN {}
              ELSE UNION {{[raised |-> TRUE, inertias |-> inertias] :
                             inertias \in [1..recorded -> InertiaValues]} :
                          recorded \in 0..Max(fits - 1, 0)})

\* What KMeans(n_clusters=k).fit_predict can do on n rows: it rejects k < 1
\* and k > n, and otherwise assigns each row one of the labels 0 .. k-1.
KMeansFits(n, k) ==
  {FitRaised} \cup
    (IF 1 <= k /\ k <= n THEN {Fitted(labels) : labels \in [1..n -> 0..(k - 1)]} ELSE {})

\* What DBSCAN(...).fit_predict can do on n rows: each row is noise or a
\* member of one of at most n clusters.
DBSCANFits(n) ==
  {FitRaised} \cup {Fitted(labels) : labels \in [1..n -> NOISE..(n - 1)]}

\* One call of cluster_kmeans(embeddings, n_clusters), on a few rows with
\* any of the explicit cluster counts, or on the fewest rows the elbow scan
\* runs on, with no explicit count or with 2.  The number of clusters is
\* resolved before the try block (lines 76-82): when neither the parameter
\* nor the configured default gives it, _optimal_clusters_elbow is called at
\* line 81, and an exception of its scan leaves cluster_kmeans (escaped, no
\* result).  An exception of the fit inside the try block (lines 84-112) is
\* caught.  raised: a fit of the call raised.
CallClusterKMeans ==
  /\ cl = NoCall
  /\ \E n \in (0..MaxPoints) \cup {ELBOW_MIN_POINTS},
        n_clusters \in NClustersInputs,
        default_n_clusters \in DefaultNClustersSettings :
       LET call == [op |-> "cluster_kmeans", n |-> n, n_clusters |-> n_clusters,
                    default_n_clusters |-> default_n_clusters]
           elbow_called == n_clusters = None /\ default_n_clusters = None
       IN  /\ n > MaxPoints => n_clusters \in {None, Some(ELBOW_FIRST_K)}
           /\ IF n = 0
              THEN cl' = call @@ [k |-> None, raised |-> FALSE, escaped |-> FALSE,
                                  result |-> ClusterKMeans(n, 0, FitRaised)]
              ELSE \E elbow \in (IF elbow_called
                                  THEN {OptimalClustersElbow(n, None, MAX_CLUSTERS, scan) :
                                          scan \in ElbowScans(n, None, MAX_CLUSTERS)}
                                  ELSE {[raised |-> FALSE, k |-> 0]}) :
                     IF elbow.raised
                     THEN cl' = call @@ [k |-> None, raised |-> TRUE, escaped |-> TRUE]
                     ELSE LET k == ResolveK(n_clusters, default_n_clusters, elbow.k)
                              returned(fit) ==
                                call @@ [k |-> Some(k), raised |-> fit.raised,
                                         escaped |-> FALSE,
                                         result |-> ClusterKMeans(n, k, fit)]
                          IN  \* every member of KMeansFits(n, k)
                              \/ cl' = returned(FitRaised)
                              \/ /\ 1 <= k /\ k <= n
                                 /\ \E labels \in [1..n -> 0..(k - 1)] :
                                      cl' = returned(Fitted(labels))
  /\ UNCHANGED <<sa, batch, ld, tc, te, db, session, nlp, runs, uploads>>

\* One call of cluster_dbscan(embeddings, eps, min_samples); eps and
\* min_samples only reach the library.
CallClusterDBSCAN ==
  /\ cl = NoCall
  /\ \E n \in 0..MaxPoints :
       \E fit \in (IF n = 0 THEN {FitRaised} ELSE DBSCANFits(n)) :
         cl' = [op |-> "cluster_dbscan", n |-> n,
                raised |-> (n > 0 /\ fit.raised), result |-> ClusterDBSCAN(n, fit)]
  /\ UNCHANGED <<sa, batch, ld, tc, te, db, session, nlp, runs, uploads>>

\* One call of _optimal_clusters_elbow(embeddings, max_k): it returns a
\* number of clusters (result), or raises what its scan raised, with the
\* inertias recorded until then.
CallOptimalClustersElbow ==
  /\ cl = NoCall
  /\ \E n \in 1..MaxElbowPoints, max_k \in MaxKInputs, max_clusters \in MaxClustersSettings :
       \E scan \in ElbowScans(n, max_k, max_clusters) :
         LET call == [op |-> "_optimal_clusters_elbow", n |-> n, max_k |-> max_k,
                      max_clusters |-> max_clusters, inertias |-> scan.inertias]
             out == OptimalClustersElbow(n, max_k, max_clusters, scan)
         IN  cl' = IF out.raised THEN call @@ [raised |-> TRUE]
                   ELSE call @@ [raised |-> FALSE, result |-> out.k]
  /\ UNCHANGED <<sa, batch, ld, tc, te, db, session, nlp, runs, uploads>>

NextCluster ==
  \/ CallClusterDBSCAN
  \/ CallOptimalClustersElbow
  \/ CallClusterKMeans

SpecCluster == InitIdle /\ [][NextCluster]_vars

-----------------------------------------------------------------------------
(* Claims about ClusteringService, checked under SpecCluster               *)

\* Sum of the reported cluster sizes.
RECURSIVE SumSizes(_, _)
SumSizes(sizes, labels) ==
  IF labels = {} THEN 0
  ELSE LET l == CHOOSE x \in labels : TRUE
       IN sizes[l] + SumSizes(sizes, labels \ {l})

\* C9 as stated: for every non-empty embedding set of size n and every
\* resolved cluster count k (k > n and k < 1 included), cluster_kmeans returns
\* exactly n labels, each in {0 .. k-1}, so the number of distinct clusters
\* never exceeds k.
C9_LabelsWithinResolvedK ==
  (cl.op = "cluster_kmeans" /\ cl.n >= 1 /\ cl.k # None) =>
    /\ Len(cl.result.labels) = cl.n
    /\ \A i \in 1..cl.n : cl.result.labels[i] \in 0..(cl.k[1] - 1)
    /\ Cardinality(UniqueLabels(cl.result.labels)) <= cl.k[1]

\* C9 as amended: for every non-empty embedding set of size n and every
\* resolved cluster count k (k > n and k < 1 included), cluster_kmeans returns
\* exactly n labels, each in {0 .. max(k, 1) - 1}, so the number of distinct
\* clusters never exceeds max(k, 1); when the fit raises every label is 0.
C9_LabelsWithinMaxOfKAndOne ==
  (cl.op = "cluster_kmeans" /\ cl.n >= 1 /\ cl.k # None) =>
    /\ Len(cl.result.labels) = cl.n
    /\ \A i \in 1..cl.n : cl.result.labels[i] \in 0..(Max(cl.k[1], 1) - 1)
    /\ Cardinality(UniqueLabels(cl.result.labels)) <= Max(cl.k[1], 1)
    /\ cl.raised => \A i \in 1..cl.n : cl.result.labels[i] = 0

\* cluster_kmeans was asked for fewer than one cluster on several rows.
C9_Witness ==
  /\ cl.op = "cluster_kmeans"
  /\ cl.n >= 2
  /\ cl.k # None
  /\ cl.k[1] < 1
  /\ Len(cl.result.labels) = cl.n

\* C10: for every embedding set of size n, cluster_dbscan returns n labels,
\* each noise (-1) or a cluster index, and in the info it builds the noise
\* count plus the sum of the reported cluster sizes equals n, with n_clusters
\* equal to the number of distinct non-noise labels.
C10_DbscanCountsAddUp ==
  (cl.op = "cluster_dbscan") =>
    /\ Len(cl.result.labels) = cl.n
    /\ \A i \in 1..cl.n : cl.result.labels[i] = NOISE \/ cl.result.labels[i] >= 0
    /\ (DOMAIN cl.result.info # {}) =>
         /\ cl.result.info.n_noise
              + SumSizes(cl.result.info.cluster_sizes, DOMAIN cl.result.info.cluster_sizes)
              = cl.n
         /\ cl.result.info.n_clusters
              = Cardinality(UniqueLabels(cl.result.labels) \ {NOISE})
         /\ cl.result.info.n_noise = CountLabel(cl.result.labels, NOISE)

\* cluster_dbscan labelled some rows noise and put the others in two clusters.
C10_Witness ==
  /\ cl.op = "cluster_dbscan"
  /\ DOMAIN cl.result.info # {}
  /\ cl.result.info.n_noise >= 1
  /\ cl.result.info.n_clusters = 2

\* The absolute values of a sequence of numbers.
AbsSeq(seq) == [i \in 1..Len(seq) |-> IF seq[i] < 0 THEN -seq[i] ELSE seq[i]]

\* The maximum the scan is configured with: max_k, else settings.MAX_CLUSTERS.
ConfiguredMax(call) == IF call.max_k = None THEN call.max_clusters ELSE call.max_k[1]

\* C22: when the elbow scan runs (n >= 10), with inertias recorded for
\* k = 2 .. min(configuredMax, n div 2), the selected k is 2 plus the index of
\* the consecutive inertia difference of largest absolute value (the steepest
\* drop); with fewer than 10 points the scan is skipped and k = min(3, n).
C22_ElbowPicksSteepestDrop ==
  (cl.op = "_optimal_clusters_elbow" /\ ~cl.raised) =>
    IF cl.n < ELBOW_MIN_POINTS
    THEN cl.inertias = <<>> /\ cl.result = Min(3, cl.n)
    ELSE /\ Len(cl.inertias) = Max(0, Min(ConfiguredMax(cl), cl.n \div 2) - 1)
         /\ Len(cl.inertias) >= 2 =>
              cl.result = 2 + ArgMax(AbsSeq(Diff(cl.inertias)))

\* C28: the k returned by _optimal_clusters_elbow for n >= 1 rows is between
\* 1 and n, and from 10 rows on, where the scan runs, it lies in the scanned
\* range: from 2 to the smaller of the configured maximum and n // 2.
C28_ElbowWithinScannedRange ==
  (cl.op = "_optimal_clusters_elbow" /\ cl.n >= 1 /\ ~cl.raised) =>
    /\ 1 <= cl.result /\ cl.result <= cl.n
    /\ cl.n >= 10 =>
         /\ 2 <= cl.result
         /\ cl.result <= Min(ConfiguredMax(cl), cl.n \div 2)

-----------------------------------------------------------------------------
(* TopicExtractor (services/topic_extractor.py)                            *)

\* str.split(): the maximal runs of non-whitespace characters, in order.
RECURSIVE SplitFrom(_, _, _)
SplitFrom(text, i, word) ==
  IF i > Len(text) THEN (IF word = <<>> THEN <<>> ELSE <<word>>)
  ELSE IF IsSpace(text[i])
       THEN (IF word = <<>> THEN <<>> ELSE <<word>>) \o SplitFrom(text, i + 1, <<>>)
       ELSE SplitFrom(text, i + 1, Append(word, text[i]))
Split(text) == SplitFrom(text, 1, <<>>)

\* min_df of the three CountVectorizers.
MIN_DF == 2

\* Outcome of vectorizer.fit_transform(documents): an exception, or the
\* feature names with the score of each in the first document.
VectorizerRaised == [raised |-> TRUE]
Vectorized(feature_names, scores) ==
  [raised |-> FALSE, feature_names |-> feature_names, scores |-> scores]

\* What CountVectorizer(min_df=2).fit_transform can do on a list of documents:
\* no term of fewer than two documents reaches a document frequency of 2, so
\* the fit raises ValueError.
VectorizerOutcomes(n_documents) ==
  IF n_documents < MIN_DF THEN {VectorizerRaised}
  ELSE {VectorizerRaised,
        Vectorized(<<S("formation"), S("salle")>>, <<1, 2>>),
        Vectorized(<<S("formation"), S("salle")>>, <<0, 1>>)}

\* scores.argsort(): the positions by increasing score.
ArgSort(scores) ==
  [r \in 1..Len(scores) |->
     CHOOSE i \in 1..Len(scores) :
       Cardinality({j \in 1..Len(scores) :
                      scores[j] < scores[i] \/ (scores[j] = scores[i] /\ j < i)}) = r - 1]

SelectSeqPositive(indices, scores) ==
  SelectSeq(indices, LAMBDA i : scores[i] > 0)

\* [feature_names[i] for i in scores.argsort()[-top_n:][::-1] if scores[i] > 0]
ThemesFromScores(feature_names, scores, top_n) ==
  LET order == ArgSort(scores)
      n     == Len(order)
      \* order[-top_n:] is the whole of order for top_n = 0 or top_n >= n
      first == IF top_n <= 0 THEN Max(1, Min(n + 1, 1 - top_n))
               ELSE Max(1, n - top_n + 1)
      tail  == SubSeq(order, first, n)
      rev   == [i \in 1..Len(tail) |-> tail[Len(tail) + 1 - i]]
      kept  == SelectSeqPositive(rev, scores)
  IN  [i \in 1..Len(kept) |-> feature_names[kept[i]]]

FALLBACK_STOP_WORDS ==
  { S("le"), S("la"), S("les"), S("un"), S("une"), S("de"), S("du"), S("et"), S("ou"),
    <<"U+00E0">>, S("au"), S("en"), S("pour") }
FALLBACK_MIN_LEN == 3

\* Counter(words)[word]
Occurrences(words, word) == Cardinality({i \in 1..Len(words) : words[i] = word})
\* The position of the first occurrence of word in words.
FirstIndex(words, word) == CHOOSE i \in 1..Len(words) : words[i] = word /\ \A j \in 1..(i - 1) : words[j] # word

\* Counter(words).most_common(n): the distinct words by decreasing count, equal
\* counts in order of first occurrence, cut to n (empty for n <= 0).
MostCommon(words, n) ==
  LET distinct == {words[i] : i \in 1..Len(words)}
      Before(v, w) ==
        \/ Occurrences(words, v) > Occurrences(words, w)
        \/ Occurrences(words, v) = Occurrences(words, w) /\ FirstIndex(words, v) < FirstIndex(words, w)
  IN  [r \in 1..Max(0, Min(n, Cardinality(distinct))) |->
         CHOOSE w \in distinct : Cardinality({v \in distinct : Before(v, w)}) = r - 1]

\* _simple_keyword_extraction(text, top_n)
MutSimpleKeywordExtraction(text, top_n) ==
  LET words == Split(Lower(text))
      filtered_words ==
        SelectSeq(words, LAMBDA word : Len(word) >= FALLBACK_MIN_LEN /\ word \notin FALLBACK_STOP_WORDS)
  IN  MostCommon(filtered_words, top_n)
SimpleKeywordExtraction(text, top_n) ==
  LET words == Split(Lower(text))
      filtered_words ==
        SelectSeq(words, LAMBDA word : Len(word) > FALLBACK_MIN_LEN /\ word \notin FALLBACK_STOP_WORDS)
  IN  MostCommon(filtered_words, top_n)

\* extract_themes_single(text, language, top_n), given what the vectorizer of
\* the language does on the one-document list [text].
ExtractThemesSingle(text, language, top_n, vectorizer) ==
  IF IsBlank(text) THEN <<>>
  ELSE IF vectorizer.raised THEN SimpleKeywordExtraction(text, top_n)
  ELSE ThemesFromScores(vectorizer.feature_names, vectorizer.scores, top_n)

\* top_n of the calls extract_themes_batch and process_evaluation make.
PIPELINE_TOP_N == 5

-----------------------------------------------------------------------------
(* Calls of TopicExtractor                                                 *)

MaxTopicChunks == 3

\* Sample texts: concatenations of at most MaxTopicChunks of these pieces (a
\* long word in two cases, a three-letter word, a listed stop word of four
\* letters, a word with no space after it, and a tab).
TopicChunks ==
  {S("formation "), S("Formation "), S("salle "), S("nul "), S("pour "), S("utile"),
   <<"U+0009">>}
TopicTexts == ConcatsUpTo(TopicChunks, MaxTopicChunks)
TopicTopNs == {0, 1, 2, PIPELINE_TOP_N}

\* One call of extract_themes_single(text, language, top_n).
CallExtractThemesSingle ==
  /\ te = NoCall
  /\ \E text \in TopicTexts, language \in {FR, "EN"}, top_n \in TopicTopNs :
       \E vectorizer \in VectorizerOutcomes(Len(<<text>>)) :
         te' = [op         |-> "extract_themes_single",
                text       |-> text,
                language   |-> language,
                top_n      |-> top_n,
                vectorizer |-> (IF IsBlank(text) THEN NoOutcome ELSE vectorizer),
                raised     |-> FALSE,
                result     |-> ExtractThemesSingle(text, language, top_n, vectorizer)]
  /\ UNCHANGED <<sa, batch, ld, tc, cl, db, session, nlp, runs, uploads>>

NextTopics == CallExtractThemesSingle

SpecTopics == InitIdle /\ [][NextTopics]_vars

-----------------------------------------------------------------------------
(* Claims about TopicExtractor, checked under SpecTopics                   *)

\* The tokens the fallback extraction may return: lower-cased whitespace-split
\* tokens longer than 3 characters that are not listed stop words.
FallbackTokens(text) ==
  LET words == Split(Lower(text))
  IN  {words[i] : i \in {j \in 1..Len(words) :
                           Len(words[j]) > 3 /\ words[j] \notin FALLBACK_STOP_WORDS}}

\* C20: for every text, language and top-N >= 0, extract_themes_single never
\* raises and returns at most top-N distinct themes by non-increasing frequency
\* in the text; a blank text yields the empty list; when vectorization fails
\* the result is the fallback extraction: the top-N most frequent of the
\* lower-cased whitespace-split tokens longer than 3 characters that are not
\* in the small stop-word set.
C20_ExtractThemesSingle ==
  (te.op = "extract_themes_single") =>
    LET words  == Split(Lower(te.text))
        tokens == FallbackTokens(te.text)
        Freq(w) == Occurrences(words, w)
    IN  /\ ~te.raised
        /\ Len(te.result) <= te.top_n
        /\ \A i, j \in 1..Len(te.result) :
             /\ (i # j => te.result[i] # te.result[j])
             /\ (i < j => Freq(te.result[i]) >= Freq(te.result[j]))
        /\ IsBlank(te.text) => te.result = <<>>
        /\ (~IsBlank(te.text) /\ te.vectorizer.raised) =>
             /\ Len(te.result) = Min(te.top_n, Cardinality(tokens))
             /\ \A i \in 1..Len(te.result) : te.result[i] \in tokens
             /\ \A w \in tokens :
                  (\A i \in 1..Len(te.result) : te.result[i] # w) =>
                    \A i \in 1..Len(te.result) : Freq(te.result[i]) >= Freq(w)

\* The vectorizer failed on a text that holds a long word once and then another
\* one twice; two themes were asked for.
C20_Witness ==
  /\ te.op = "extract_themes_single"
  /\ te.top_n = 2
  /\ te.text = S("formation salle salle ")
  /\ te.result = <<S("salle"), S("formation")>>

-----------------------------------------------------------------------------
(* The tables and the session (models/models.py, core/database.py)         *)
(*                                                                         *)
(* db holds the committed rows.  A row's id is its position in its table.  *)
(* (The code only compares ids for equality, so the numbers a rolled-back   *)
(* transaction may have used up are not kept track of.)                    *)
(* A session (autoflush off) collects added and modified objects; the      *)
(* database answers its queries from the committed rows, and a row the     *)
(* session has loaded comes back as the object the session holds;          *)
(* commit() writes everything collected or, when it raises, nothing;       *)
(* rollback() and close() drop what was collected.  Columns the services   *)
(* never read back (timestamps, embeddings, centroids, descriptions) are   *)
(* left out.                                                               *)

NULL == "NULL"

\* The values of a sequence, and a sequence without its repetitions.
Range(seq) == {seq[i] : i \in 1..Len(seq)}
RECURSIVE Dedup(_)
Dedup(seq) ==
  IF seq = <<>> THEN <<>>
  ELSE LET front == Dedup(SubSeq(seq, 1, Len(seq) - 1))
           last  == seq[Len(seq)]
       IN  IF last \in Range(front) THEN front ELSE Append(front, last)
RECURSIVE Flatten(_)
Flatten(seqs) == IF seqs = <<>> THEN <<>> ELSE Head(seqs) \o Flatten(Tail(seqs))

\* A row of the themes table is a (theme_name, language) key with a frequency.
ThemeKey(theme_name, language) == <<theme_name, language>>

\* The total a sequence of writes adds to a key.
RECURSIVE SumCounts(_, _)
SumCounts(writes, key) ==
  IF writes = <<>> THEN 0
  ELSE (IF Head(writes).key = key THEN Head(writes).count ELSE 0) + SumCounts(Tail(writes), key)

\* What a session does to the themes table: a new Theme row, or
\* theme.frequency += count on a row it loaded.
InsertTheme(key, count) == [key |-> key, count |-> count, insert |-> TRUE]
IncrementTheme(key, count) == [key |-> key, count |-> count, insert |-> FALSE]

\* The themes table after the writes of a committed session.
MutApplyThemeWrites(themes, writes) ==
  IF writes = <<>> THEN themes
  ELSE [k \in {writes[i].key : i \in 1..Len(writes)} |->
          (IF k \in DOMAIN themes THEN themes[k] ELSE 0)
            + SumCounts(writes, k)]
RECURSIVE ApplyThemeWrites(_, _)
ApplyThemeWrites(themes, writes) ==
  IF writes = <<>> THEN themes
  ELSE LET w == Head(writes)
           now == IF w.key \in DOMAIN themes THEN themes[w.key] ELSE 0
       IN  ApplyThemeWrites(
             [k \in DOMAIN themes \cup {w.key} |-> IF k = w.key THEN now + w.count ELSE themes[k]],
             Tail(writes))

\* UniqueConstraint('theme_name', 'language') and the unique evaluation_id of
\* analyses: whether writing the collected objects breaks one of them.
ViolatesConstraints(d, analyses, theme_writes) ==
  \/ \E i \in 1..Len(theme_writes) :
       /\ theme_writes[i].insert
       /\ \/ theme_writes[i].key \in DOMAIN d.themes
          \/ \E j \in 1..(i - 1) : theme_writes[j].insert /\ theme_writes[j].key = theme_writes[i].key
  \/ \E i \in 1..Len(analyses) :
       \/ \E a \in Range(d.analyses) : a.evaluation_id = analyses[i].evaluation_id
       \/ \E j \in 1..(i - 1) : analyses[j].evaluation_id = analyses[i].evaluation_id

-----------------------------------------------------------------------------
(* NLPService (services/nlp_service.py)                                    *)

EvaluationRow(evaluation_id, commentaire, langue, satisfaction, type_formation, formateur_id, recent) ==
  [evaluation_id  |-> evaluation_id,
   commentaire    |-> commentaire,
   langue         |-> langue,
   satisfaction   |-> satisfaction,
   type_formation |-> type_formation,
   formateur_id   |-> formateur_id,
   recent         |-> recent]

\* Rows the ingestion delivers: a negative French comment with no declared
\* language, a comment in Darija declared as French, a row without comment,
\* and another French comment with no declared language.
RowNulle  == EvaluationRow("E1", S("formation nulle"), NULL, 2, "Python", "T1", TRUE)
RowDarija == EvaluationRow("E2", S("bach dyal formation"), FR, 5, "Excel", "T2", TRUE)
RowBlank  == EvaluationRow("E3", <<>>, NULL, 4, "Python", "T1", FALSE)
RowSalle  == EvaluationRow("E4", S("formation salle"), NULL, 3, "Excel", "T2", TRUE)

EvaluationRows == {RowNulle, RowDarija, RowBlank, RowSalle}
\* Two files that share a row.
EvaluationFiles == { <<RowNulle, RowDarija>>, <<RowDarija, RowBlank>> }

\* What the collaborators may do for one item of a pipeline call.
PipelineDetectOutcomes == {"fr"}
PipelineRemoteOutcomes ==
  { Exception,
    Response(HTTP_OK, JList(<<Classification(JStr(S("POSITIVE")), JNum(100))>>)) }
CommitOutcomes == {"ok", "raised"}

\* The three per-item services on the sample comments, tabulated: what
\* detect_language, analyze and extract_themes_single (whose vectorizer is
\* fitted on one document) return for each comment, language and outcome.
SampleComments == {row.commentaire : row \in EvaluationRows}
SampleLanguages == {FR, AR, DARIJA}
DetectLanguageOf ==
  [text \in SampleComments, detected \in PipelineDetectOutcomes |->
     DetectLanguage(text, detected)]
AnalyzeOf ==
  [text \in SampleComments, language \in SampleLanguages, outcome \in PipelineRemoteOutcomes |->
     AnalyzeResult(text, language, outcome)]
ExtractThemesOf ==
  [text \in SampleComments, language \in SampleLanguages |->
     CHOOSE themes \in {ExtractThemesSingle(text, language, PIPELINE_TOP_N, v) :
                          v \in VectorizerOutcomes(Len(<<text>>))} : TRUE]


Analysis(evaluation_id, language, sentiment_result, themes) ==
  [evaluation_id     |-> evaluation_id,
   detected_language |-> language,
   sentiment         |-> sentiment_result.sentiment,
   sentiment_score   |-> sentiment_result.score,
   themes            |-> themes,
   cluster_id        |-> None]

\* _update_global_themes(themes, language, db): one query and one write per
\* non-empty theme name.
UpdateGlobalThemes(d, themes, language) ==
  LET names == SelectSeq(themes, LAMBDA theme_name : theme_name # <<>>)
  IN  [i \in 1..Len(names) |->
         IF ThemeKey(names[i], language) \in DOMAIN d.themes
         THEN IncrementTheme(ThemeKey(names[i], language), 1)
         ELSE InsertTheme(ThemeKey(names[i], language), 1)]

\* theme_counts of _update_global_themes_batch(themes_data, db): the themes
\* are counted per language; the result lists the (theme, language) pairs the
\* update loop visits, in its order (by language, then by theme, each as first
\* met; an empty name is skipped), with their counts.
MutThemeCounts(themes_data) ==
  Flatten([i \in 1..Len(themes_data) |->
             LET names == SelectSeq(themes_data[i].themes, LAMBDA theme_name : theme_name # <<>>)
             IN  [j \in 1..Len(names) |->
                    [key |-> ThemeKey(names[j], themes_data[i].language), count |-> 1]]])
ThemeCounts(themes_data) ==
  LET pairs == Flatten([i \in 1..Len(themes_data) |->
                          [j \in 1..Len(themes_data[i].themes) |->
                             ThemeKey(themes_data[i].themes[j], themes_data[i].language)]])
      languages == Dedup([i \in 1..Len(themes_data) |-> themes_data[i].language])
      counted == Dedup(pairs)
      keys  == SelectSeq(
                 Flatten([l \in 1..Len(languages) |->
                            SelectSeq(counted, LAMBDA key : key[2] = languages[l])]),
                 LAMBDA key : key[1] # <<>>)
  IN  [i \in 1..Len(keys) |-> [key |-> keys[i], count |-> Occurrences(pairs, keys[i])]]

\* One turn of the update loop (lines 297-315): the query for a counted pair
\* on the rows committed when it runs, and the write that follows it.
UpdateTheme(themes, counted) ==
  IF counted.key \in DOMAIN themes
  THEN IncrementTheme(counted.key, counted.count)
  ELSE InsertTheme(counted.key, counted.count)

\* _update_global_themes_batch(themes_data, db) when no other session commits
\* while it runs: one query and one write per (language, theme) counted.
UpdateGlobalThemesBatch(d, themes_data) ==
  LET counts == ThemeCounts(themes_data)
  IN  [i \in 1..Len(counts) |-> UpdateTheme(d.themes, counts[i])]

\* Outcome of embedding_model.encode in get_embeddings.
EmbeddingOutcomes == {"ok", "raised"}

\* The Cluster rows _perform_clustering creates for the labels of a batch, one
\* per distinct label other than noise, by increasing label.
MutClustersOf(labels) ==
  LET numbers == UniqueLabels(labels) \ {NOISE}
      Rank(label) == Cardinality({l \in numbers : l < label}) + 1
  IN  [r \in 1..(IF labels = <<>> THEN 0 ELSE DEFAULT_N_CLUSTERS) |->
         [cluster_number |-> r - 1, size |-> CountLabel(labels, r - 1)]]
ClustersOf(labels) ==
  LET numbers == UniqueLabels(labels) \ {NOISE}
      Rank(label) == Cardinality({l \in numbers : l < label}) + 1
  IN  [r \in 1..Cardinality(numbers) |->
         LET label == CHOOSE l \in numbers : Rank(l) = r
         IN  [cluster_number |-> label, size |-> CountLabel(labels, label)]]

\* The position in ClustersOf(labels) of the cluster of a label.
ClusterIndex(labels, label) ==
  CHOOSE r \in 1..Len(ClustersOf(labels)) : ClustersOf(labels)[r].cluster_number = label

\* _perform_clustering(analyses, embeddings, texts, db): cluster(texts,
\* method="kmeans") embeds the texts again and fits K-Means with the
\* configured number of clusters; each Cluster is added and flushed, then the
\* analyses get the id of their cluster.  `flush` is "ok" or "raised" (the
\* except branch is taken and no analysis is assigned).
AssignClusters(d, analyses, labels, flush) ==
  LET flushed == ClustersOf(labels) = <<>> \/ flush = "ok"
  IN  [labels   |-> labels,
       clusters |-> ClustersOf(labels),
       flushed  |-> flushed,
       analyses |->
         IF flushed /\ labels # <<>>
         THEN [i \in 1..Len(analyses) |->
                 IF labels[i] # NOISE
                 THEN [analyses[i] EXCEPT
                         !.cluster_id = Some(Len(d.clusters) + ClusterIndex(labels, labels[i]))]
                 ELSE analyses[i]]
         ELSE analyses]
ClusterLabels(n, embedding, fit) ==
  IF embedding = "raised" THEN <<>>
  ELSE ClusterKMeans(n, DEFAULT_N_CLUSTERS, fit).labels
PerformClustering(d, analyses, embedding, fit, flush) ==
  AssignClusters(d, analyses, ClusterLabels(Len(analyses), embedding, fit), flush)

\* The language process_batch works with for an evaluation: the declared one,
\* else the detected one.
BatchLanguage(evaluation, detected) ==
  IF evaluation.langue # NULL THEN evaluation.langue
  ELSE DetectLanguageOf[evaluation.commentaire, detected]

\* db.commit() at the end of a call: it writes the collected objects, unless
\* it raises; it raises when a flush failed before, when a constraint is
\* broken, or when the database fails (`commit` is "raised").
Commits(d, analyses, theme_writes, flushed, commit) ==
  flushed /\ commit = "ok" /\ ~ViolatesConstraints(d, analyses, theme_writes)

\* The Analysis built for each evaluation of a batch, in order.
MutBatchAnalyses(evaluations, langues, remote) ==
  SelectSeq([i \in 1..Len(evaluations) |->
               Analysis(evaluations[i].id, langues[i],
                        AnalyzeOf[evaluations[i].commentaire, langues[i], remote[i]],
                        ExtractThemesOf[evaluations[i].commentaire, langues[i]])],
            LAMBDA analysis : analysis.themes # <<>>)
BatchAnalyses(evaluations, langues, remote) ==
  [i \in 1..Len(evaluations) |->
     Analysis(evaluations[i].id, langues[i],
              AnalyzeOf[evaluations[i].commentaire, langues[i], remote[i]],
              ExtractThemesOf[evaluations[i].commentaire, langues[i]])]

\* langues: the language process_batch works with for each evaluation.
BatchLangues(evaluations, detected) ==
  [i \in 1..Len(evaluations) |-> BatchLanguage(evaluations[i], detected[i])]

\* all_themes_to_update: the theme lists that are not empty, with their language.
ThemesToUpdate(analyses) ==
  SelectSeq([i \in 1..Len(analyses) |->
               [themes |-> analyses[i].themes, language |-> analyses[i].detected_language]],
            LAMBDA item : item.themes # <<>>)

\* Step 4: the clustering runs when get_embeddings returned embeddings.
BatchClustering(d, analyses, embeddings, embedding, fit, flush) ==
  IF embeddings = "ok" THEN PerformClustering(d, analyses, embedding, fit, flush)
  ELSE [labels |-> <<>>, clusters |-> <<>>, flushed |-> TRUE, analyses |-> analyses]

\* The evaluations table once the evaluation objects `updated` are written.
StoreEvaluations(d, updated) ==
  [j \in 1..Len(d.evaluations) |->
     IF \E i \in 1..Len(updated) : updated[i].id = j
     THEN updated[CHOOSE i \in 1..Len(updated) : updated[i].id = j]
     ELSE d.evaluations[j]]

\* The end of process_batch: db.commit(), or db.rollback() and raise.
MutCommitBatch(d, s, evaluations, updated, theme_writes, clustering, commit) ==
  [db |-> [d EXCEPT !.evaluations = StoreEvaluations(d, updated),
                    !.analyses = d.analyses \o clustering.analyses],
   session |-> NoPendingWrites,
   evaluations_after |-> updated,
   constraints |-> "ok",
   committed |-> TRUE, raised |-> FALSE, result |-> clustering.analyses]
CommitBatch(d, s, evaluations, updated, theme_writes, clustering, commit) ==
  LET collected == s.analyses \o clustering.analyses
  IN  IF Commits(d, collected, theme_writes, clustering.flushed, commit)
      THEN [db |-> [d EXCEPT !.evaluations = StoreEvaluations(d, updated),
                             !.analyses = d.analyses \o collected,
                             !.clusters = d.clusters \o clustering.clusters,
                             !.themes = ApplyThemeWrites(d.themes, theme_writes)],
            session |-> NoPendingWrites,
            evaluations_after |-> updated,
            constraints |-> "ok",
            committed |-> TRUE, raised |-> FALSE, result |-> clustering.analyses]
      ELSE [db |-> d, session |-> NoPendingWrites,
            evaluations_after |-> evaluations,
            constraints |-> (IF ViolatesConstraints(d, collected, theme_writes)
                             THEN "violated" ELSE "ok"),
            committed |-> FALSE, raised |-> TRUE, result |-> <<>>]

\* The body of process_batch for a non-empty list, from the analyses built
\* for it on: the theme update, the clustering and the commit.
BatchWrites(d, s, evaluations, langues, analyses, embeddings, embedding, fit, flush, commit) ==
  CommitBatch(d, s, evaluations,
              \* eval.langue = detected
              [i \in 1..Len(evaluations) |-> [evaluations[i] EXCEPT !.langue = langues[i]]],
              s.themes \o UpdateGlobalThemesBatch(d, ThemesToUpdate(analyses)),
              BatchClustering(d, analyses, embeddings, embedding, fit, flush),
              commit)

\* The body of process_batch for a non-empty list, from the languages on.
BatchAnalysed(d, s, evaluations, langues, remote, embeddings, embedding, fit, flush, commit) ==
  BatchWrites(d, s, evaluations, langues, BatchAnalyses(evaluations, langues, remote),
              embeddings, embedding, fit, flush, commit)

\* process_batch(evaluations, db) on the committed rows d with the writes s
\* already collected by the session, given the outcomes of the collaborators.
\* The result gives the rows and the session after the call, the evaluation
\* objects after the call, and what the call returned.
ProcessBatch(d, s, evaluations, detected, remote, embeddings, embedding, fit, flush, commit) ==
  IF evaluations = <<>>
  THEN [db |-> d, session |-> s, evaluations_after |-> evaluations, constraints |-> "ok",
        committed |-> FALSE, raised |-> FALSE, result |-> <<>>]
  ELSE BatchAnalysed(d, s, evaluations, BatchLangues(evaluations, detected), remote,
                     embeddings, embedding, fit, flush, commit)

\* process_evaluation(evaluation, db): the analysis and the theme writes are
\* added to the session; nothing is committed.
MutProcessEvaluation(d, s, evaluation, detected, remote) ==
  LET detected_lang == DetectLanguageOf[evaluation.commentaire, detected]
      final_lang == detected_lang
      themes == ExtractThemesOf[evaluation.commentaire, final_lang]
      analysis == Analysis(evaluation.id, final_lang,
                           AnalyzeOf[evaluation.commentaire, final_lang, remote], themes)
  IN  [session |-> [analyses |-> Append(s.analyses, analysis),
                    themes   |-> s.themes \o UpdateGlobalThemes(d, themes, final_lang)],
       final_lang |-> final_lang,
       result |-> analysis]
ProcessEvaluation(d, s, evaluation, detected, remote) ==
  LET detected_lang == DetectLanguageOf[evaluation.commentaire, detected]
      final_lang == IF evaluation.langue # NULL THEN evaluation.langue ELSE detected_lang
      themes == ExtractThemesOf[evaluation.commentaire, final_lang]
      analysis == Analysis(evaluation.id, final_lang,
                           AnalyzeOf[evaluation.commentaire, final_lang, remote], themes)
  IN  [session |-> [analyses |-> Append(s.analyses, analysis),
                    themes   |-> s.themes \o UpdateGlobalThemes(d, themes, final_lang)],
       final_lang |-> final_lang,
       result |-> analysis]

-----------------------------------------------------------------------------
(* AnalyticsService.generate_insights (services/analytics_service.py)      *)

LOW_SATISFACTION_BELOW == 3
TOP_FORMATEUR_MIN_AVG_TENTHS == 45
TOP_FORMATEUR_MIN_COUNT == 5
NEGATIVE_PCT_ABOVE == 30
LOW_SATISFACTION_CONFIDENCE == 90
TOP_FORMATEUR_CONFIDENCE == 95
NEGATIVE_TREND_CONFIDENCE == 80

RECURSIVE SumSeq(_)
SumSeq(seq) == IF seq = <<>> THEN 0 ELSE Head(seq) + SumSeq(Tail(seq))

Insight(insight_type, title, confidence, formation_type, formateur_id, date_scoped) ==
  [insight_type   |-> insight_type,
   title          |-> title,
   confidence     |-> confidence,
   formation_type |-> formation_type,
   formateur_id   |-> formateur_id,
   date_scoped    |-> date_scoped]

\* The satisfaction marks of the evaluations of a group.
Marks(d, column, value) ==
  LET rows == SelectSeq(d.evaluations, LAMBDA ev : ev[column] = value)
  IN  [i \in 1..Len(rows) |-> rows[i].satisfaction]

\* 1. One insight per type_formation whose average satisfaction is below 3
\* (groups in order of first appearance).
LowSatisfactionInsights(d) ==
  LET formations == Dedup([i \in 1..Len(d.evaluations) |-> d.evaluations[i].type_formation])
      low == SelectSeq(formations,
               LAMBDA f : SumSeq(Marks(d, "type_formation", f))
                            < LOW_SATISFACTION_BELOW * Len(Marks(d, "type_formation", f)))
  IN  [i \in 1..Len(low) |->
         Insight("signal_faible", <<"Attention: Satisfaction faible pour", low[i]>>,
                 LOW_SATISFACTION_CONFIDENCE, low[i], NULL, FALSE)]

\* 2. One insight per formateur_id with an average of at least 4.5 over at
\* least 5 evaluations.
TopFormateurInsights(d) ==
  LET formateurs == Dedup([i \in 1..Len(d.evaluations) |-> d.evaluations[i].formateur_id])
      top == SelectSeq(formateurs,
               LAMBDA f : /\ 10 * SumSeq(Marks(d, "formateur_id", f))
                               >= TOP_FORMATEUR_MIN_AVG_TENTHS * Len(Marks(d, "formateur_id", f))
                          /\ Len(Marks(d, "formateur_id", f)) >= TOP_FORMATEUR_MIN_COUNT)
  IN  [i \in 1..Len(top) |->
         Insight("tendance", <<"Formateur excellent:", top[i]>>,
                 TOP_FORMATEUR_CONFIDENCE, NULL, top[i], FALSE)]

\* The analyses of the evaluations dated in the last 7 days.
RecentAnalyses(d) ==
  SelectSeq(d.analyses, LAMBDA a : d.evaluations[a.evaluation_id].recent)

\* 3. One insight when more than 30% of the recent analyses with a known
\* polarity are negative.
MutNegativeTrendInsights(d) ==
  LET recent_analyses == RecentAnalyses(d)
      known == SelectSeq(recent_analyses, LAMBDA a : a.sentiment \in {POSITIVE, NEUTRAL, NEGATIVE})
      negative == SelectSeq(recent_analyses, LAMBDA a : a.sentiment = NEGATIVE)
  IN  IF recent_analyses # <<>> /\ Len(known) > 0
         /\ 100 * Len(negative) >= NEGATIVE_PCT_ABOVE * Len(known)
      THEN <<Insight("trend", <<"Augmentation des sentiments n", "U+00E9", "gatifs">>,
                     NEGATIVE_TREND_CONFIDENCE, NULL, NULL, TRUE)>>
      ELSE <<>>
NegativeTrendInsights(d) ==
  LET recent_analyses == RecentAnalyses(d)
      known == SelectSeq(recent_analyses, LAMBDA a : a.sentiment \in {POSITIVE, NEUTRAL, NEGATIVE})
      negative == SelectSeq(recent_analyses, LAMBDA a : a.sentiment = NEGATIVE)
  IN  IF recent_analyses # <<>> /\ Len(known) > 0
         /\ 100 * Len(negative) > NEGATIVE_PCT_ABOVE * Len(known)
      THEN <<Insight("trend", <<"Augmentation des sentiments n", "U+00E9", "gatifs">>,
                     NEGATIVE_TREND_CONFIDENCE, NULL, NULL, TRUE)>>
      ELSE <<>>

\* generate_insights(db) on the committed rows d with the writes s already
\* collected by the session: the insights are added and committed; when the
\* commit raises the session is rolled back; the insights are returned.
MutGenerateInsights(d, s, commit) ==
  LET insights == LowSatisfactionInsights(d) \o TopFormateurInsights(d)
                    \o NegativeTrendInsights(d)
  IN  IF Commits(d, s.analyses, s.themes, TRUE, commit)
      THEN [db |-> [d EXCEPT !.analyses = d.analyses \o s.analyses,
                             !.themes = ApplyThemeWrites(d.themes, s.themes),
                             !.insights = d.insights \o insights],
            session |-> NoPendingWrites, committed |-> TRUE, raised |-> FALSE,
            result |-> insights]
      ELSE [db |-> [d EXCEPT !.insights = d.insights \o SubSeq(insights, 1, Min(1, Len(insights)))],
            session |-> NoPendingWrites, committed |-> FALSE, raised |-> FALSE,
            result |-> insights]
MutGenerateInsightsOnce(d, s, commit) ==
  LET insights == SelectSeq(LowSatisfactionInsights(d) \o TopFormateurInsights(d)
                              \o NegativeTrendInsights(d),
                            LAMBDA insight : insight \notin Range(d.insights))
  IN  IF Commits(d, s.analyses, s.themes, TRUE, commit)
      THEN [db |-> [d EXCEPT !.analyses = d.analyses \o s.analyses,
                             !.themes = ApplyThemeWrites(d.themes, s.themes),
                             !.insights = d.insights \o insights],
            session |-> NoPendingWrites, committed |-> TRUE, raised |-> FALSE,
            result |-> insights]
      ELSE [db |-> d,
            session |-> NoPendingWrites, committed |-> FALSE, raised |-> FALSE,
            result |-> insights]
GenerateInsights(d, s, commit) ==
  LET insights == LowSatisfactionInsights(d) \o TopFormateurInsights(d)
                    \o NegativeTrendInsights(d)
  IN  IF Commits(d, s.analyses, s.themes, TRUE, commit)
      THEN [db |-> [d EXCEPT !.analyses = d.analyses \o s.analyses,
                             !.themes = ApplyThemeWrites(d.themes, s.themes),
                             !.insights = d.insights \o insights],
            session |-> NoPendingWrites, committed |-> TRUE, raised |-> FALSE,
            result |-> insights]
      ELSE [db |-> d,
            session |-> NoPendingWrites, committed |-> FALSE, raised |-> FALSE,
            result |-> insights]

-----------------------------------------------------------------------------
(* Calls made on the session                                               *)

MaxEvaluations == 2
MaxBatchEvaluations == 2
MaxPending == 1
MaxInsights == 2

\* The outcome of a collaborator as the call saw it.
DetectSeen(evaluation, detected) ==
  IF evaluation.langue = NULL /\ ConsultsIdentifier(evaluation.commentaire)
  THEN detected ELSE NotConsulted

\* The outcomes detect_language and the remote call may have for one
\* evaluation of a call.
DetectOutcomesFor(evaluation) ==
  IF DetectSeen(evaluation, "fr") = NotConsulted THEN {"fr"} ELSE PipelineDetectOutcomes
RemoteOutcomesFor(evaluation) ==
  IF IsBlank(evaluation.commentaire) THEN {Exception} ELSE PipelineRemoteOutcomes
DetectChoices(evaluations) ==
  {f \in [1..Len(evaluations) -> PipelineDetectOutcomes] :
     \A i \in 1..Len(evaluations) : f[i] \in DetectOutcomesFor(evaluations[i])}
RemoteChoices(evaluations) ==
  {f \in [1..Len(evaluations) -> PipelineRemoteOutcomes] :
     \A i \in 1..Len(evaluations) : f[i] \in RemoteOutcomesFor(evaluations[i])}

\* The sub-lists of the evaluations table, of at most MaxBatchEvaluations rows.
RECURSIVE SubListsOf(_)
SubListsOf(seq) ==
  IF seq = <<>> THEN {<<>>}
  ELSE LET rest == SubListsOf(Tail(seq))
       IN  rest \cup {<<Head(seq)>> \o r : r \in rest}
BatchInputs(d) == {l \in SubListsOf(d.evaluations) : Len(l) <= MaxBatchEvaluations}

\* routes.upload_file, storing the rows: rows whose evaluation_id is already
\* stored are skipped, the others are added and committed.
CreateEvaluations ==
  /\ session = NoPendingWrites
  /\ \E file \in EvaluationFiles, commit \in CommitOutcomes :
       LET known == {d.evaluation_id : d \in Range(db.evaluations)}
           rows  == SelectSeq(file, LAMBDA row : row.evaluation_id \notin known)
           added == [i \in 1..Len(rows) |->
                       [id |-> Len(db.evaluations) + i] @@ rows[i]]
       IN  /\ Len(db.evaluations) + Len(rows) <= MaxEvaluations
           /\ db' = IF commit = "ok"
                    THEN [db EXCEPT !.evaluations = db.evaluations \o added]
                    ELSE db
           /\ nlp' = [op |-> "create_evaluations", file |-> file,
                      committed |-> (commit = "ok"), raised |-> (commit # "ok")]
  /\ UNCHANGED <<sa, batch, ld, tc, cl, te, session, runs, uploads>>

\* What a process_batch call leaves: the tables, the session, and the record
\* of the call (`clustering` tells what became of the clustering, `failed`
\* whether the flush or the commit raised).
BatchReturns(evaluations, clustering, failed, out) ==
  /\ db' = out.db
  /\ session' = out.session
  /\ nlp' = [op |-> "process_batch",
             evaluations |-> evaluations,
             evaluations_after |-> out.evaluations_after,
             clustering |-> (IF evaluations = <<>> THEN NotConsulted ELSE clustering),
             persistence |-> (IF failed \/ out.constraints = "violated"
                              THEN "failed" ELSE "ok"),
             committed |-> out.committed,
             raised |-> out.raised,
             result |-> out.result]

\* One call of process_batch(evaluations, db).  Each collaborator the call
\* reaches has one of its outcomes; one that is not reached has none to choose.
CallProcessBatch ==
  /\ \E evaluations \in BatchInputs(db) :
     \E detected \in DetectChoices(evaluations), remote \in RemoteChoices(evaluations) :
     \E embeddings \in (IF evaluations = <<>> THEN {"ok"} ELSE EmbeddingOutcomes) :
     \E embedding \in (IF evaluations # <<>> /\ embeddings = "ok"
                       THEN EmbeddingOutcomes ELSE {"ok"}) :
     \E fit \in (IF evaluations # <<>> /\ embeddings = "ok" /\ embedding = "ok"
                 THEN KMeansFits(Len(evaluations), DEFAULT_N_CLUSTERS) ELSE {FitRaised}) :
     \E flush \in (IF evaluations # <<>> /\ embeddings = "ok" /\ embedding = "ok"
                   THEN CommitOutcomes ELSE {"ok"}) :
     \E commit \in (IF evaluations = <<>> \/ flush = "raised" THEN {"ok"} ELSE CommitOutcomes) :
       BatchReturns(evaluations,
                    IF embeddings = "raised" THEN "no embeddings"
                    ELSE IF embedding = "raised" THEN "embedding raised"
                    ELSE IF fit.raised THEN "fit raised" ELSE "fitted",
                    flush = "raised" \/ commit = "raised",
                    ProcessBatch(db, session, evaluations, detected, remote,
                                 embeddings, embedding, fit, flush, commit))
  /\ UNCHANGED <<sa, batch, ld, tc, cl, te, runs, uploads>>

\* One call of process_evaluation(evaluation, db).
CallProcessEvaluation ==
  /\ Len(session.analyses) < MaxPending
  /\ \E evaluation \in Range(db.evaluations),
        detected \in PipelineDetectOutcomes, remote \in PipelineRemoteOutcomes :
       LET out == ProcessEvaluation(db, session, evaluation, detected, remote)
       IN  /\ ~ConsultsIdentifier(evaluation.commentaire) => detected = "fr"
           /\ remote \in RemoteOutcomesFor(evaluation)
           /\ session' = out.session
           /\ nlp' = [op |-> "process_evaluation",
                      evaluations |-> <<evaluation>>,
                      evaluations_after |-> <<evaluation>>,
                      committed |-> FALSE,
                      raised |-> FALSE,
                      result |-> <<out.result>>]
  /\ UNCHANGED <<sa, batch, ld, tc, cl, te, db, runs, uploads>>

\* One call of generate_insights(db).
CallGenerateInsights ==
  /\ \E commit \in CommitOutcomes :
       LET out == GenerateInsights(db, session, commit)
       IN  /\ Len(db.insights) + Len(out.result) <= MaxInsights
           /\ db' = out.db
           /\ session' = out.session
           /\ nlp' = [op |-> "generate_insights",
                      pending |-> Len(session.analyses),
                      persistence |-> (IF commit = "raised"
                                          \/ ViolatesConstraints(db, session.analyses,
                                                                 session.themes)
                                       THEN "failed" ELSE "ok"),
                      committed |-> out.committed,
                      raised |-> out.raised,
                      result |-> out.result]
  /\ UNCHANGED <<sa, batch, ld, tc, cl, te, runs, uploads>>

\* The rows a query of the session returns, given the rows the database
\* selected: a row the session has loaded and changed comes back as the object
\* the session holds (identity map), its frequency raised by the increments
\* that are not flushed yet.
LoadedThemes(rows, writes) ==
  [i \in 1..Len(rows) |->
     Theme(rows[i].theme_name, rows[i].language,
           rows[i].frequency
             + SumCounts(SelectSeq(writes, LAMBDA w : ~w.insert),
                         ThemeKey(rows[i].theme_name, rows[i].language)))]

\* get_categorized_themes(db, top_n) on the stored themes: a read. The
\* database orders and limits the committed rows (autoflush is off: what the
\* session added or changed is not written before the query).
CategorizedTopNs == {1}
CallCategorizedThemes ==
  /\ nlp.op # "get_categorized_themes"
  /\ \E top_n \in CategorizedTopNs :
       LET table == {Theme(k[1], k[2], db.themes[k]) : k \in DOMAIN db.themes}
       IN  \E selected \in QueryTopThemes(table, top_n) :
             nlp' = [op |-> "get_categorized_themes", top_n |-> top_n,
                     rows |-> LoadedThemes(selected, session.themes),
                     committed |-> FALSE, raised |-> FALSE,
                     result |-> GetCategorizedThemes(LoadedThemes(selected, session.themes))]
  /\ UNCHANGED <<sa, batch, ld, tc, cl, te, db, session, runs, uploads>>

\* get_db: the session is closed at the end of the request; what it had
\* collected and not committed is dropped.
CloseSession ==
  /\ session # NoPendingWrites
  /\ session' = NoPendingWrites
  /\ nlp' = [op |-> "close", committed |-> FALSE, raised |-> FALSE]
  /\ UNCHANGED <<sa, batch, ld, tc, cl, te, db, runs, uploads>>

NextPipeline ==
  \/ CreateEvaluations
  \/ CallProcessBatch
  \/ CallProcessEvaluation
  \/ CallGenerateInsights
  \/ CallCategorizedThemes
  \/ CloseSession

SpecPipeline == InitIdle /\ [][NextPipeline]_vars


\* One call of the clustering service on its own, or calls of the pipeline.
NextClusteringPipeline ==
  \/ (nlp = NoCall /\ NextCluster)
  \/ (cl = NoCall /\ NextPipeline)

SpecClusteringPipeline == InitIdle /\ [][NextClusteringPipeline]_vars

-----------------------------------------------------------------------------
(* Properties of the pipeline                                              *)

ClusteringFailures == {"no embeddings", "embedding raised", "fit raised"}

\* C11: when fitting raises, cluster_kmeans returns (no exception leaves
\* it) label 0 for every input and empty metadata, and cluster_dbscan returns
\* the noise label for every input and empty metadata; and a process_batch
\* call in which the embedding or the clustering failed, and whose
\* persistence did not, returns and has committed one Analysis per
\* evaluation.
C11_ClusteringFailureDoesNotAbort ==
  /\ (cl.op = "cluster_kmeans" /\ cl.raised) =>
       /\ ~cl.escaped
       /\ cl.result.labels = [i \in 1..cl.n |-> 0]
       /\ cl.result.info = EmptyInfo
  /\ (cl.op = "cluster_dbscan" /\ cl.raised) =>
       /\ cl.result.labels = [i \in 1..cl.n |-> NOISE]
       /\ cl.result.info = EmptyInfo
  /\ (nlp.op = "process_batch" /\ nlp.clustering \in ClusteringFailures
        /\ nlp.persistence = "ok") =>
       /\ ~nlp.raised
       /\ nlp.committed
       /\ Len(nlp.result) = Len(nlp.evaluations)
       /\ \A i \in 1..Len(nlp.evaluations) :
            /\ nlp.result[i].evaluation_id = nlp.evaluations[i].id
            /\ nlp.result[i] \in Range(db.analyses)

\* The ids of the evaluations that have an analysis.
AnalysedIds == {a.evaluation_id : a \in Range(db.analyses)}

\* C12: if the commit at the end of process_batch fails, none of the writes
\* of the batch is persisted (no Analysis, no Cluster, no Theme, no frequency
\* increment), every record persisted before is unchanged, and the error is
\* raised to the caller.
C12_FailedCommitPersistsNothing ==
  [][(nlp'.op = "process_batch" /\ nlp'.persistence = "failed") =>
       /\ db' = db
       /\ session' = NoPendingWrites
       /\ nlp'.raised
       /\ ~nlp'.committed]_vars

\* C12 witness: with analyses and themes already stored, the commit of a
\* batch on an evaluation that had no analysis failed.
C12_Witness ==
  /\ nlp.op = "process_batch"
  /\ nlp.persistence = "failed"
  /\ nlp.raised
  /\ db.analyses # <<>>
  /\ DOMAIN db.themes # {}
  /\ \E i \in 1..Len(nlp.evaluations) : nlp.evaluations[i].id \notin AnalysedIds

\* C13: when persisting the insights of a generate_insights run fails, the
\* failure is raised to the caller; generate_insights does not return the
\* list of generated insights as if they had been saved.
C13_InsightFailureReported ==
  (nlp.op = "generate_insights" /\ nlp.persistence = "failed" /\ nlp.result # <<>>) =>
    nlp.raised

\* C14: after a generate_insights invocation either every insight it
\* generated is persisted, after the ones stored before, or the stored
\* insights are exactly what they were; a failed commit stores none.
C14_InsightsAllOrNone ==
  [][nlp'.op = "generate_insights" =>
       /\ \/ db'.insights = db.insights \o nlp'.result /\ nlp'.committed
          \/ db'.insights = db.insights /\ ~nlp'.committed
       /\ nlp'.persistence = "failed" => db'.insights = db.insights]_vars

\* C14 witness: a run that generated insights failed to commit while the table
\* already held an insight.
C14_Witness ==
  /\ nlp.op = "generate_insights"
  /\ nlp.persistence = "failed"
  /\ ~nlp.committed
  /\ nlp.result # <<>>
  /\ db.insights # <<>>

\* C15: two consecutive successful generate_insights invocations over the
\* same evaluations and analyses generate the same insights and the second
\* appends a second copy of each; no step removes or changes a stored
\* insight, and the number of stored insights never decreases.
C15_RerunAppendsSameInsights ==
  [][/\ Len(db'.insights) >= Len(db.insights)
     /\ SubSeq(db'.insights, 1, Len(db.insights)) = db.insights
     /\ (/\ nlp.op = "generate_insights" /\ nlp.committed /\ nlp.pending = 0
         /\ nlp'.op = "generate_insights" /\ nlp'.committed) =>
          /\ nlp'.result = nlp.result
          /\ db'.insights = db.insights \o nlp.result]_vars

\* C15 witness: the second of two successful runs stored a second copy of the
\* insight of the first.
C15_Witness ==
  /\ nlp.op = "generate_insights"
  /\ nlp.committed
  /\ Len(nlp.result) = 1
  /\ Len(db.insights) = 2
  /\ db.insights[1] = db.insights[2]
  /\ db.insights[2] = nlp.result[1]

\* C16: in every step of process_batch, process_evaluation,
\* generate_insights and get_categorized_themes, failed commits included, no
\* theme record is removed and no stored frequency decreases.
C16_ThemeFrequencyNeverDecreases ==
  [][\A key \in DOMAIN db.themes :
       /\ key \in DOMAIN db'.themes
       /\ db'.themes[key] >= db.themes[key]]_vars

\* C16 witness: a committed batch raised the frequency of a theme stored by
\* an earlier one, next to a theme the batch does not mention.
C16_Witness ==
  /\ nlp.op = "process_batch"
  /\ nlp.committed
  /\ Len(nlp.result) = 1
  /\ \E key \in DOMAIN db.themes : db.themes[key] = 2
  /\ \E key \in DOMAIN db.themes : key[1] \notin Range(nlp.result[1].themes)

\* C17: a process_batch call whose persistence does not fail returns one
\* analysis per evaluation, in order, the i-th with the id of the i-th
\* evaluation, a sentiment, a score and a theme list, whatever the remote
\* call, the vectorizer, the embedding model and the clustering did.
C17_OneAnalysisPerEvaluation ==
  (nlp.op = "process_batch" /\ nlp.persistence = "ok") =>
    /\ ~nlp.raised
    /\ Len(nlp.result) = Len(nlp.evaluations)
    /\ \A i \in 1..Len(nlp.evaluations) :
         /\ nlp.result[i].evaluation_id = nlp.evaluations[i].id
         /\ nlp.result[i].sentiment \in {POSITIVE, NEUTRAL, NEGATIVE}
         /\ nlp.result[i].sentiment_score \in -100..100
         /\ Len(nlp.result[i].themes) <= PIPELINE_TOP_N

\* C17 witness: a batch with a comment and a row without comment returned
\* both analyses, the second with no theme.
C17_Witness ==
  /\ nlp.op = "process_batch"
  /\ ~nlp.raised
  /\ Len(nlp.evaluations) = 2
  /\ IsBlank(nlp.evaluations[2].commentaire)
  /\ Len(nlp.result) = 2
  /\ nlp.result[1].themes # <<>>
  /\ nlp.result[2].themes = <<>>

\* C18: process_batch and process_evaluation leave every field of every
\* input evaluation as it was before the call, and the stored evaluations
\* too.
C18_EvaluationsReadOnly ==
  (nlp.op \in {"process_batch", "process_evaluation"}) =>
    /\ nlp.evaluations_after = nlp.evaluations
    /\ \A i \in 1..Len(nlp.evaluations) :
         db.evaluations[nlp.evaluations[i].id] = nlp.evaluations[i]

\* C19: in process_batch and process_evaluation the language of the
\* analysis of an evaluation with a declared language is the declared one,
\* and the themes are those extracted with it, whatever detection returns;
\* without a declared language it is what detection returned.
C19_DeclaredLanguageWins ==
  (nlp.op \in {"process_batch", "process_evaluation"} /\ ~nlp.raised) =>
    \A i \in 1..Len(nlp.evaluations) :
      LET evaluation == nlp.evaluations[i]
          analysis   == nlp.result[i]
      IN  IF evaluation.langue # NULL
          THEN /\ analysis.detected_language = evaluation.langue
               /\ analysis.themes = ExtractThemesOf[evaluation.commentaire, evaluation.langue]
               /\ \E outcome \in PipelineRemoteOutcomes :
                    analysis.sentiment
                      = AnalyzeOf[evaluation.commentaire, evaluation.langue, outcome].sentiment
          ELSE \E detected \in PipelineDetectOutcomes :
                 analysis.detected_language = DetectLanguageOf[evaluation.commentaire, detected]

\* C19 witness: process_evaluation analysed in French a comment declared
\* French that detection classifies as Darija.
C19_Witness ==
  /\ nlp.op = "process_evaluation"
  /\ nlp.evaluations[1].langue = FR
  /\ DetectLanguageOf[nlp.evaluations[1].commentaire, "fr"] = DARIJA
  /\ nlp.result[1].detected_language = FR

-----------------------------------------------------------------------------
(* process_batch, statement by statement, on sessions of their own         *)
(*                                                                         *)
(* Each request has its own session (get_db), so two process_batch calls   *)
(* in progress share only the committed rows.  A run is one call: its      *)
(* place in the code (pc), its local variables, and what its session       *)
(* loaded and collected.  The database is PostgreSQL at its default        *)
(* isolation (READ COMMITTED): a query reads what is committed when it     *)
(* runs, also between two queries of one call, an UPDATE writes the value  *)
(* the session computed, an INSERT that breaks a unique constraint         *)
(* raises.  In these runs the embedding model                              *)
(* fails (get_embeddings returns an empty array), so step 4 is skipped     *)
(* and no Cluster is written.                                              *)

MaxRuns == 3
MaxSessions == 2

\* A file of three comments that share a word.
BatchFile == <<RowNulle, RowDarija, RowSalle>>

InProgress(run) == run.pc \notin {"returned", "raised"}
RunsInProgress == {r \in DOMAIN runs : InProgress(runs[r])}

\* routes.upload_file, storing the rows of the file (lines 56-79).
StoreBatchFile ==
  /\ db.evaluations = <<>>
  /\ runs = <<>>
  /\ db' = [db EXCEPT !.evaluations =
                        [i \in 1..Len(BatchFile) |-> [id |-> i] @@ BatchFile[i]]]
  /\ UNCHANGED <<sa, batch, ld, tc, cl, te, session, nlp, runs, uploads>>

\* Lines 97-113: return [] for an empty list; else the languages are
\* settled, detected ones being assigned to the evaluation objects.
StartBatch ==
  /\ Len(runs) < MaxRuns
  /\ Cardinality(RunsInProgress) < MaxSessions
  /\ \E evaluations \in BatchInputs(db) :
     \E detected \in DetectChoices(evaluations) :
       runs' = Append(runs,
                 [pc                |-> IF evaluations = <<>> THEN "returned" ELSE "languages",
                  evaluations       |-> evaluations,
                  langues           |-> BatchLangues(evaluations, detected),
                  sentiment_results |-> <<>>,
                  themes_list       |-> <<>>,
                  analyses          |-> <<>>,
                  themes_read       |-> <<>>,
                  theme_writes      |-> <<>>,
                  overlaps          |-> RunsInProgress,
                  themes_at_start   |-> db.themes,
                  result            |-> <<>>])
  /\ UNCHANGED <<sa, batch, ld, tc, cl, te, db, session, nlp, uploads>>

\* Line 116: sentiment_results = analyze_batch(commentaires, langues); the
\* remote service answers every request of a run alike.
RunAnalyzeBatch ==
  \E r \in DOMAIN runs :
      /\ runs[r].pc = "languages"
      /\ \E outcome \in PipelineRemoteOutcomes :
           runs' = [runs EXCEPT
                      ![r].pc = "sentiments",
                      ![r].sentiment_results =
                         [i \in 1..Len(runs[r].evaluations) |->
                            AnalyzeOf[runs[r].evaluations[i].commentaire, runs[r].langues[i],
                                      IF IsBlank(runs[r].evaluations[i].commentaire)
                                      THEN Exception ELSE outcome]]]
      /\ UNCHANGED <<sa, batch, ld, tc, cl, te, db, session, nlp, uploads>>

\* Line 119: themes_list = extract_themes_batch(commentaires, langues).
RunExtractThemesBatch ==
  \E r \in DOMAIN runs :
      /\ runs[r].pc = "sentiments"
      /\ runs' = [runs EXCEPT
                    ![r].pc = "themes",
                    ![r].themes_list =
                       [i \in 1..Len(runs[r].evaluations) |->
                          ExtractThemesOf[runs[r].evaluations[i].commentaire, runs[r].langues[i]]]]
      /\ UNCHANGED <<sa, batch, ld, tc, cl, te, db, session, nlp, uploads>>

\* Lines 122-144: get_embeddings returns no embedding; one Analysis per
\* evaluation is built and added to the session.
RunBuildAnalyses ==
  \E r \in DOMAIN runs :
      /\ runs[r].pc = "themes"
      /\ runs' = [runs EXCEPT
                    ![r].pc = "analyses",
                    ![r].analyses =
                       [i \in 1..Len(runs[r].evaluations) |->
                          Analysis(runs[r].evaluations[i].id, runs[r].langues[i],
                                   runs[r].sentiment_results[i], runs[r].themes_list[i])]]
      /\ UNCHANGED <<sa, batch, ld, tc, cl, te, db, session, nlp, uploads>>

\* Line 146: _update_global_themes_batch(all_themes_to_update, db), one turn
\* of its loop at a time: the pairs are counted, and each turn queries the
\* themes table for the next pair and collects the new row or the new
\* frequency.  What another session commits between two turns is seen by the
\* later one.  A run without themes passes line 146 in one step.
RunUpdateThemes ==
  \E r \in DOMAIN runs :
      /\ runs[r].pc \in {"analyses", "theme_loop"}
      /\ LET counts == ThemeCounts(ThemesToUpdate(runs[r].analyses))
             turn   == Len(runs[r].theme_writes) + 1
         IN  IF counts = <<>>
             THEN runs' = [runs EXCEPT ![r].pc = "themes_updated"]
             ELSE runs' = [runs EXCEPT
                             ![r].pc = IF turn = Len(counts) THEN "themes_updated" ELSE "theme_loop",
                             ![r].theme_writes = Append(@, UpdateTheme(db.themes, counts[turn])),
                             ![r].themes_read =
                                IF counts[turn].key \in DOMAIN db.themes
                                THEN (counts[turn].key :> db.themes[counts[turn].key]) @@ @
                                ELSE @]
      /\ UNCHANGED <<sa, batch, ld, tc, cl, te, db, session, nlp, uploads>>

\* The themes table after a session wrote its theme objects: a new row holds
\* its count; a loaded row holds the frequency the session read plus what the
\* session added to it.
WriteThemes(themes, writes, themes_read) ==
  [k \in DOMAIN themes \cup {writes[i].key : i \in 1..Len(writes)} |->
     IF \E i \in 1..Len(writes) : writes[i].key = k
     THEN (IF k \in DOMAIN themes_read THEN themes_read[k] ELSE 0) + SumCounts(writes, k)
     ELSE themes[k]]

\* Lines 148-158: no clustering without embeddings; db.commit(), or
\* db.rollback() and raise.
RunCommit ==
  \E r \in DOMAIN runs :
      /\ runs[r].pc = "themes_updated"
      /\ \E commit \in CommitOutcomes :
           IF Commits(db, runs[r].analyses, runs[r].theme_writes, TRUE, commit)
           THEN /\ db' = [db EXCEPT
                            !.evaluations =
                               StoreEvaluations(db,
                                 [i \in 1..Len(runs[r].evaluations) |->
                                    [runs[r].evaluations[i] EXCEPT !.langue = runs[r].langues[i]]]),
                            !.analyses = db.analyses \o runs[r].analyses,
                            !.themes = WriteThemes(db.themes, runs[r].theme_writes,
                                                   runs[r].themes_read)]
                /\ runs' = [runs EXCEPT ![r].pc = "returned", ![r].result = runs[r].analyses]
           ELSE /\ db' = db
                /\ runs' = [runs EXCEPT ![r].pc = "raised"]
      /\ UNCHANGED <<sa, batch, ld, tc, cl, te, session, nlp, uploads>>

NextBatches ==
  \/ StoreBatchFile
  \/ StartBatch
  \/ RunAnalyzeBatch
  \/ RunExtractThemesBatch
  \/ RunBuildAnalyses
  \/ RunUpdateThemes
  \/ RunCommit

SpecBatches == InitIdle /\ [][NextBatches]_vars

-----------------------------------------------------------------------------
(* Properties of the runs                                                  *)

\* The (theme, language) pairs of the items of a run, and the number of items
\* of the run whose theme list holds a pair.
RunPairs(run) ==
  UNION {{ThemeKey(theme_name, run.langues[i]) : theme_name \in Range(run.themes_list[i])} :
           i \in 1..Len(run.themes_list)}
ItemsHolding(run, key) ==
  Cardinality({i \in 1..Len(run.themes_list) :
                 run.langues[i] = key[2] /\ key[1] \in Range(run.themes_list[i])})
ResultsComplete(run) ==
  /\ Len(run.sentiment_results) = Len(run.evaluations)
  /\ Len(run.themes_list) = Len(run.evaluations)

\* The pairs a run has queried so far.
KeysQueried(run) == {run.theme_writes[i].key : i \in 1..Len(run.theme_writes)}

\* C23: the themes table is read (a turn of the loop of line 146) and written
\* (the commit) only by a run that holds the sentiment and theme results of
\* all its items; each turn queries a (theme, language) pair of the batch the
\* run has not queried before and collects one write for it, with the number
\* of items holding the pair, as a new row when the table has none and as an
\* increment of the frequency read otherwise; when the loop is over every
\* pair of the batch has been queried; the commit leaves each such row at the
\* frequency read (0 for a new row) plus that number, and the table changes in
\* no other step.
C23_ThemeUpdateCoalescedAfterResults ==
  [][ /\ \A r \in DOMAIN runs :
           /\ (runs'[r].theme_writes # runs[r].theme_writes) =>
                LET run == runs[r]
                    write == runs'[r].theme_writes[Len(run.theme_writes) + 1]
                IN  /\ ResultsComplete(run)
                    /\ runs'[r].theme_writes = Append(run.theme_writes, write)
                    /\ write.key \notin KeysQueried(run)
                    /\ write.key \in RunPairs(run) /\ write.key[1] # <<>>
                    /\ write.count = ItemsHolding(run, write.key)
                    /\ write.insert = (write.key \notin DOMAIN db.themes)
                    /\ DOMAIN runs'[r].themes_read
                         = DOMAIN run.themes_read \cup ({write.key} \cap DOMAIN db.themes)
                    /\ \A key \in DOMAIN runs'[r].themes_read :
                         runs'[r].themes_read[key] =
                           IF key = write.key THEN db.themes[key] ELSE run.themes_read[key]
           /\ (runs[r].pc # "themes_updated" /\ runs'[r].pc = "themes_updated") =>
                KeysQueried(runs'[r])
                  = {key \in RunPairs(runs[r]) : ItemsHolding(runs[r], key) > 0 /\ key[1] # <<>>}
      /\ db'.themes # db.themes =>
           \E r \in DOMAIN runs :
             /\ runs[r].pc = "themes_updated" /\ runs'[r].pc = "returned"
             /\ ResultsComplete(runs[r])
             /\ \A key \in DOMAIN db'.themes :
                  db'.themes[key] =
                    IF ItemsHolding(runs[r], key) > 0
                    THEN (IF key \in DOMAIN runs[r].themes_read
                          THEN runs[r].themes_read[key] ELSE 0) + ItemsHolding(runs[r], key)
                    ELSE db.themes[key]
    ]_vars

\* C23 witness: a run of two items that share a pair has returned; the pair
\* was written once, for both items.
C23_Witness ==
  \E r \in DOMAIN runs :
    /\ runs[r].pc = "returned"
    /\ Len(runs[r].evaluations) = 2
    /\ \E i \in 1..Len(runs[r].theme_writes) :
         /\ runs[r].theme_writes[i].count = 2
         /\ db.themes[runs[r].theme_writes[i].key] >= 2

\* Run i was in progress when run j started, and both have committed.
ConcurrentCommitted(i, j) ==
  /\ i \in runs[j].overlaps
  /\ runs[i].pc = "returned" /\ runs[j].pc = "returned"

\* No run other than i and j has written the key since run i started.
OnlyWriters(i, j, key) ==
  \A k \in DOMAIN runs \ {i, j} :
    \/ runs[k].pc # "returned"
    \/ ItemsHolding(runs[k], key) = 0
    \/ k < i /\ k \notin runs[i].overlaps

\* C24: when two runs that were in progress together have both committed, and
\* both hold a (theme, language) pair that was stored before the first of
\* them started, the frequency of the pair is what it was then plus the
\* counts of the two runs.
C24_NoLostThemeUpdate ==
  \A i, j \in DOMAIN runs :
    \A key \in DOMAIN runs[i].themes_at_start :
      ( /\ ConcurrentCommitted(i, j)
        /\ ItemsHolding(runs[i], key) > 0
        /\ ItemsHolding(runs[j], key) > 0
        /\ OnlyWriters(i, j, key) )
      => db.themes[key] = runs[i].themes_at_start[key]
                            + ItemsHolding(runs[i], key) + ItemsHolding(runs[j], key)

-----------------------------------------------------------------------------
(* Calls of ThemeCategorizer.categorize_theme                              *)

\* Theme names: keywords of each category and language, names in capitals,
\* parts of keywords, names holding keywords of two categories, names that
\* match nothing, and the empty name.
CategorizeNames ==
  { S("formation"), S("Formateur"), S("salle"), S("utile"), S("divers"), S("pratique"),
    S("formateur pratique"), S("salle utile"), S("expert utile"), S("organis") \o <<"U+00E9">>,
    S("comp") \o <<"U+00E9">> \o S("tences"), S("ens"), S("sall"), S("util"), <<>>,
    S("SALLE"), <<"U+00C9">> \o S("QUIPEMENT"), S("lwaqt"), S("mazyan"), S("maalem"),
    S("fayda"), S("xyz"), S("practique"),
    <<"U+0645", "U+062F", "U+0631", "U+0628">>, <<"U+0642", "U+0627", "U+0639", "U+0629">>,
    <<"U+062A", "U+0637", "U+0628", "U+064A", "U+0642">>,
    <<"U+0639", "U+0645", "U+0644", "U+064A">> }

\* Language codes: the three of LanguageEnum and one that is none of them.
CategorizeLanguages == {FR, AR, DARIJA, "EN"}

\* One call of categorize_theme(theme_name, language).
CallCategorizeTheme ==
  /\ tc = NoCall
  /\ \E theme_name \in CategorizeNames, language \in CategorizeLanguages :
       tc' = [op         |-> "categorize_theme",
              theme_name |-> theme_name,
              language   |-> language,
              result     |-> CategorizeTheme(theme_name, language)]
  /\ UNCHANGED <<sa, batch, ld, cl, te, db, session, nlp, runs, uploads>>

NextCategorize == CallCategorizeTheme

SpecCategorize == InitIdle /\ [][NextCategorize]_vars

\* The keywords of a category a call looks at, and whether one of them holds
\* the lower-cased name of the call or is held by it.
KeywordsConsulted(category) ==
  IF tc.language = AR THEN KEYWORDS_AR(category)
  ELSE IF tc.language = DARIJA THEN KEYWORDS_DARIJA(category)
  ELSE KEYWORDS_FR(category)
HasKeyword(category) ==
  \E keyword \in KeywordsConsulted(category) :
    Contains(Lower(tc.theme_name), keyword) \/ Contains(keyword, Lower(tc.theme_name))

\* C25: categorize_theme returns one of the four categories: the first of
\* Formation Quality, Trainer Competence, Logistics and Organization,
\* Applicability and Usefulness that has a keyword of the language (the French
\* ones for a code that is none of FR, AR, DARIJA) holding the lower-cased
\* name or held by it, and Formation Quality when no category has one.
C25_CategorizeThemeFirstMatch ==
  (tc.op = "categorize_theme") =>
    /\ tc.result \in {QUALITE, COMPETENCES, ORGANISATION, APPLICABILITE}
    /\ tc.result =
         IF HasKeyword(QUALITE) THEN QUALITE
         ELSE IF HasKeyword(COMPETENCES) THEN COMPETENCES
         ELSE IF HasKeyword(ORGANISATION) THEN ORGANISATION
         ELSE IF HasKeyword(APPLICABILITE) THEN APPLICABILITE
         ELSE QUALITE

\* C25 witness: a name in capitals that holds keywords of the third and of the
\* fourth category, under a language code that is none of the three, was put
\* in the third.
C25_Witness ==
  /\ tc.op = "categorize_theme"
  /\ tc.language \notin {FR, AR, DARIJA}
  /\ tc.theme_name # Lower(tc.theme_name)
  /\ tc.result = ORGANISATION

-----------------------------------------------------------------------------
(* generate_insights on stored analyses                                    *)

MaxRecentNegative == 4
MaxRecentPositive == 7
MaxRecentNeutral == 1
MaxOlder == 1

\* A database of analysed evaluations: so many recent ones whose analysis is
\* negative, positive and neutral, then so many older ones whose analysis is
\* negative.  The mark goes with the sentiment.
StoredSentiments(negative, positive, neutral, older) ==
  [i \in 1..negative |-> NEGATIVE] \o [i \in 1..positive |-> POSITIVE]
    \o [i \in 1..neutral |-> NEUTRAL] \o [i \in 1..older |-> NEGATIVE]
AnalysedDatabase(negative, positive, neutral, older) ==
  LET sentiments == StoredSentiments(negative, positive, neutral, older)
  IN  [EmptyDatabase EXCEPT
         !.evaluations =
            [i \in 1..Len(sentiments) |->
               [id |-> i] @@
               EvaluationRow("E" \o ToString(i), S("formation"), FR,
                             IF sentiments[i] = NEGATIVE THEN 2
                             ELSE IF sentiments[i] = POSITIVE THEN 5 ELSE 3,
                             "Python", "T1", i <= negative + positive + neutral)],
         !.analyses =
            [i \in 1..Len(sentiments) |->
               Analysis(i, FR,
                        [sentiment |-> sentiments[i],
                         score |-> IF sentiments[i] = NEGATIVE THEN -100
                                   ELSE IF sentiments[i] = POSITIVE THEN 100 ELSE 0],
                        <<S("formation")>>)]]

InitAnalysed ==
  /\ sa = NoCall
  /\ batch = BatchIdle
  /\ ld = NoCall
  /\ tc = NoCall
  /\ cl = NoCall
  /\ te = NoCall
  /\ \E negative \in 0..MaxRecentNegative, positive \in 0..MaxRecentPositive,
        neutral \in 0..MaxRecentNeutral, older \in 0..MaxOlder :
       db = AnalysedDatabase(negative, positive, neutral, older)
  /\ session = NoPendingWrites
  /\ nlp = NoCall
  /\ runs = <<>>
  /\ uploads = <<>>

\* One call of generate_insights(db) on the stored analyses.
CallGenerateInsightsOnce ==
  /\ nlp = NoCall
  /\ \E commit \in CommitOutcomes :
       LET out == GenerateInsights(db, session, commit)
       IN  /\ db' = out.db
           /\ session' = out.session
           /\ nlp' = [op |-> "generate_insights",
                      pending |-> Len(session.analyses),
                      persistence |-> (IF commit = "raised" THEN "failed" ELSE "ok"),
                      committed |-> out.committed,
                      raised |-> out.raised,
                      result |-> out.result]
  /\ UNCHANGED <<sa, batch, ld, tc, cl, te, runs, uploads>>

NextInsights == CallGenerateInsightsOnce

SpecInsights == InitAnalysed /\ [][NextInsights]_vars

\* The stored analyses of evaluations of the last 7 days, and the negative
\* ones among them.
RecentlyAnalysed ==
  {i \in 1..Len(db.analyses) : db.evaluations[db.analyses[i].evaluation_id].recent}
RecentlyNegative == {i \in RecentlyAnalysed : db.analyses[i].sentiment = NEGATIVE}
TrendInsights ==
  SelectSeq(nlp.result, LAMBDA insight : insight.insight_type = "trend")

\* C26: generate_insights returns the negative-trend insight, once, with
\* confidence 0.8 and the 7-day date range, when more than 30% of the analyses
\* of evaluations of the last 7 days are negative; it returns none at exactly
\* 30% or below, or when there is no such analysis.
C26_NegativeTrendAboveThirtyPercent ==
  (nlp.op = "generate_insights") =>
    IF /\ RecentlyAnalysed # {}
       /\ 100 * Cardinality(RecentlyNegative) > 30 * Cardinality(RecentlyAnalysed)
    THEN /\ Len(TrendInsights) = 1
         /\ TrendInsights[1].confidence = 80
         /\ TrendInsights[1].date_scoped
    ELSE TrendInsights = <<>>

\* C26 witness: a call on 3 negative analyses out of 10 recent ones, and on
\* older negative ones, returned no trend insight.
C26_Witness ==
  /\ nlp.op = "generate_insights"
  /\ Cardinality(RecentlyNegative) = 3
  /\ Cardinality(RecentlyAnalysed) = 10
  /\ Len(db.analyses) > 10
  /\ TrendInsights = <<>>

-----------------------------------------------------------------------------------------------------------------------------------------------------
(* routes.upload_file                                                      *)
(*                                                                         *)
(* The application is one uvicorn process (main.py 72-79).  upload_file is *)
(* a coroutine: it is suspended at `await file.read()` (line 44), where    *)
(* the event loop serves other requests, and from there it runs on the     *)
(* event loop without another await, so no other coroutine runs before it  *)
(* has answered.  It commits three times: the rows (line 75), the analyses *)
(* of process_batch (nlp_service.py 153), the insights                     *)
(* (analytics_service.py 339).  The routes that are plain functions run in *)
(* threads of their own, statement by statement, and each of their         *)
(* statements sees what is committed when it runs; POST                    *)
(* /analytics/generate-insights (lines 256-265) is the one that writes.    *)

MaxUploads == 2
MaxInsightRequests == 1

\* What FileParser.parse_file does for an uploaded file: it raises
\* ValueError, or returns the rows of the file (no row, one row, two rows
\* one of them without comment, three rows).
ParseOutcomes == {"ok", "ValueError"}
UploadFiles ==
  { <<>>, <<RowNulle>>, <<RowBlank, RowSalle>>, <<RowNulle, RowDarija, RowSalle>> }

\* Whether the extension of the file name is one of csv, pdf, xlsx, xls.
ExtensionOutcomes == {"ok", "unsupported"}

UploadsEnded == Cardinality({u \in DOMAIN uploads : uploads[u].pc = "done"})

\* The rows of a file whose evaluation_id is not stored yet, as the
\* Evaluation objects the handler adds.
NewEvaluations(d, file) ==
  LET known == {ev.evaluation_id : ev \in Range(d.evaluations)}
      rows  == SelectSeq(file, LAMBDA row : row.evaluation_id \notin known)
  IN  [i \in 1..Len(rows) |-> [id |-> Len(d.evaluations) + i] @@ rows[i]]

\* A request that has been answered: 200, or the status of the HTTPException.
UploadAnswered(upload, status) ==
  [upload EXCEPT !.pc = "done", !.status = status, !.ended = UploadsEnded + 1]

\* generate_insights (analytics_service.py 250-345) statement by statement.
\* Each of its three SELECTs and its commit is a round trip to the database,
\* and under READ COMMITTED a SELECT sees what is committed when it runs: a
\* call is at the statement it runs next, with the insights it has appended
\* to its list so far.
InsightsCall == [statement |-> "low_satisfaction", insights |-> <<>>, committed |-> FALSE]

\* The next statement of a call on the committed rows d: the SELECT of lines
\* 253-260, 275-285 or 301-305 with the insights its rows give, or the
\* commit of lines 335-343, which stores the list or is rolled back, and the
\* return of the list.
GenerateInsightsStatement(call, d, commit) ==
  CASE call.statement = "low_satisfaction" ->
         [call |-> [call EXCEPT !.statement = "top_formateurs",
                                !.insights = @ \o LowSatisfactionInsights(d)],
          db |-> d]
    [] call.statement = "top_formateurs" ->
         [call |-> [call EXCEPT !.statement = "recent_analyses",
                                !.insights = @ \o TopFormateurInsights(d)],
          db |-> d]
    [] call.statement = "recent_analyses" ->
         [call |-> [call EXCEPT !.statement = "commit",
                                !.insights = @ \o NegativeTrendInsights(d)],
          db |-> d]
    [] call.statement = "commit" ->
         [call |-> [call EXCEPT !.statement = "returned", !.committed = (commit = "ok")],
          db |-> IF commit = "ok" THEN [d EXCEPT !.insights = @ \o call.insights] ELSE d]

\* The outcomes of the commit a statement may make.
StatementCommits(call) == IF call.statement = "commit" THEN CommitOutcomes ELSE {"ok"}

\* Lines 33-44: a request arrives with a file.  An unsupported extension
\* raises an HTTPException (400) inside the try block, which `except
\* Exception` turns into a 500; otherwise the coroutine is suspended while the
\* content is read.
UploadRead ==
  /\ Len(uploads) < MaxUploads
  /\ \E file \in UploadFiles, extension \in ExtensionOutcomes :
       LET upload == [pc |-> "reading", file |-> file, status |-> 0, ended |-> 0,
                      evaluations |-> <<>>, batch_returned |-> FALSE, analyses |-> <<>>,
                      clusters_before |-> 0, clusters_after |-> 0,
                      generating |-> InsightsCall]
       IN  IF extension = "unsupported"
           THEN /\ file = <<>>
                /\ uploads' = Append(uploads, UploadAnswered(upload, 500))
           ELSE uploads' = Append(uploads, upload)
  /\ UNCHANGED <<sa, batch, ld, tc, cl, te, db, session, nlp, runs>>

\* The event loop is running a request between its line 44 and its answer.
EventLoopBusy == \E u \in DOMAIN uploads : uploads[u].pc \in {"stored", "processed"}

\* Lines 46-79: the content is parsed and the rows that are not stored yet
\* are added and committed.  A ValueError of the parser becomes a 400; the
\* HTTPException raised for a file without rows is caught by `except
\* Exception` and becomes a 500, as does a commit that raises.
UploadStore ==
  \E u \in DOMAIN uploads :
      /\ uploads[u].pc = "reading"
      /\ ~EventLoopBusy
      /\ \E parse \in ParseOutcomes, store \in CommitOutcomes :
           IF parse = "ValueError"
           THEN /\ uploads[u].file = <<>> /\ store = "ok"
                /\ db' = db
                /\ uploads' = [uploads EXCEPT ![u] = UploadAnswered(@, 400)]
           ELSE IF uploads[u].file = <<>> \/ store = "raised"
           THEN /\ uploads[u].file = <<>> => store = "ok"
                /\ db' = db
                /\ uploads' = [uploads EXCEPT ![u] = UploadAnswered(@, 500)]
           ELSE /\ db' = [db EXCEPT !.evaluations = @ \o NewEvaluations(db, uploads[u].file)]
                /\ uploads' = [uploads EXCEPT
                                 ![u].pc = "stored",
                                 ![u].evaluations = NewEvaluations(db, uploads[u].file)]
      /\ UNCHANGED <<sa, batch, ld, tc, cl, te, session, nlp, runs>>

\* What process_batch left for the request that called it: an exception
\* becomes a 500.
UploadProcessed(u, out) ==
  /\ db' = out.db
  /\ uploads' = [uploads EXCEPT
                   ![u] = IF out.raised THEN UploadAnswered(@, 500)
                          ELSE [@ EXCEPT !.pc = "processed",
                                         !.batch_returned = TRUE,
                                         !.analyses = out.result,
                                         !.clusters_before = Len(db.clusters),
                                         !.clusters_after = Len(out.db.clusters)]]

\* Lines 81-84: process_batch on the evaluations the request stored, on the
\* rows committed by now.
UploadProcess ==
  \E u \in DOMAIN uploads :
      /\ uploads[u].pc = "stored"
      /\ LET evaluations == uploads[u].evaluations
         IN  \E detected \in DetectChoices(evaluations), remote \in RemoteChoices(evaluations) :
             \E embeddings \in (IF evaluations = <<>> THEN {"ok"} ELSE EmbeddingOutcomes) :
             \E embedding \in (IF evaluations # <<>> /\ embeddings = "ok"
                               THEN EmbeddingOutcomes ELSE {"ok"}) :
             \E fit \in (IF evaluations # <<>> /\ embeddings = "ok" /\ embedding = "ok"
                         THEN KMeansFits(Len(evaluations), DEFAULT_N_CLUSTERS) ELSE {FitRaised}) :
             \E flush \in (IF evaluations # <<>> /\ embeddings = "ok" /\ embedding = "ok"
                           THEN CommitOutcomes ELSE {"ok"}) :
             \E commit \in (IF evaluations = <<>> \/ flush = "raised"
                            THEN {"ok"} ELSE CommitOutcomes) :
               UploadProcessed(u, ProcessBatch(db, NoPendingWrites, evaluations, detected,
                                               remote, embeddings, embedding, fit, flush,
                                               commit))
      /\ UNCHANGED <<sa, batch, ld, tc, cl, te, session, nlp, runs>>

\* Lines 86-94: the next statement of the generate_insights call of the
\* request, on the rows committed by now; when the call has returned, the
\* response.
UploadInsights ==
  \E u \in DOMAIN uploads :
      /\ uploads[u].pc = "processed"
      /\ \E commit \in StatementCommits(uploads[u].generating) :
           LET out == GenerateInsightsStatement(uploads[u].generating, db, commit)
           IN  /\ db' = out.db
               /\ uploads' = [uploads EXCEPT
                                ![u] = IF out.call.statement = "returned"
                                       THEN UploadAnswered([@ EXCEPT !.generating = out.call], 200)
                                       ELSE [@ EXCEPT !.generating = out.call]]
      /\ UNCHANGED <<sa, batch, ld, tc, cl, te, session, nlp, runs>>

\* POST /analytics/generate-insights (lines 256-265), in its thread: the
\* next statement of its generate_insights call, on the rows committed by
\* now.  The statements of the requests running on the event loop fall
\* between its statements.  result is the list the call returned, once it
\* has.
InsightRequests == IF nlp.op = "generate_insights" THEN nlp.requests ELSE 0
RequestRunning == nlp.op = "generate_insights" /\ nlp.call.statement # "returned"
RequestGenerateInsights ==
  /\ RequestRunning \/ InsightRequests < MaxInsightRequests
  /\ LET call == IF RequestRunning THEN nlp.call ELSE InsightsCall
         requests == IF RequestRunning THEN nlp.requests ELSE InsightRequests + 1
     IN  \E commit \in StatementCommits(call) :
           LET out == GenerateInsightsStatement(call, db, commit)
           IN  /\ db' = out.db
               /\ nlp' = [op |-> "generate_insights",
                          requests |-> requests,
                          call |-> out.call,
                          raised |-> FALSE,
                          result |-> IF out.call.statement = "returned"
                                     THEN out.call.insights ELSE <<>>]
  /\ UNCHANGED <<sa, batch, ld, tc, cl, te, session, runs, uploads>>

NextUpload ==
  \/ UploadRead
  \/ UploadStore
  \/ UploadProcess
  \/ UploadInsights
  \/ RequestGenerateInsights

SpecUpload == InitIdle /\ [][NextUpload]_vars

\* The rows of the clusters table the process_batch call of a request
\* created, and the analyses it returned that are assigned to one.
ClustersCreated(upload) == (upload.clusters_before + 1)..upload.clusters_after
Members(upload, c) ==
  {i \in 1..Len(upload.analyses) : upload.analyses[i].cluster_id = Some(c)}
Assigned(upload) == {i \in 1..Len(upload.analyses) : upload.analyses[i].cluster_id # None}

\* C29: after a process_batch call that returned, every Cluster it created
\* has a size of at least 1 that is the number of its analyses assigned to
\* the cluster, every analysis of the call that has a cluster_id is assigned
\* to a Cluster the call created, and the sizes add up to the number of
\* assigned analyses.
C29_ClustersMatchAnalyses ==
  \A u \in DOMAIN uploads :
    uploads[u].batch_returned =>
      /\ \A c \in ClustersCreated(uploads[u]) :
           /\ db.clusters[c].size >= 1
           /\ db.clusters[c].size = Cardinality(Members(uploads[u], c))
      /\ \A i \in Assigned(uploads[u]) :
           uploads[u].analyses[i].cluster_id[1] \in ClustersCreated(uploads[u])
      /\ SumSeq([k \in 1..Cardinality(ClustersCreated(uploads[u])) |->
                   db.clusters[uploads[u].clusters_before + k].size])
           = Cardinality(Assigned(uploads[u]))
      /\ \A i \in 1..Len(uploads[u].analyses) : uploads[u].analyses[i] \in Range(db.analyses)

\* C29 witness: a call on three evaluations returned after creating two
\* clusters of different sizes.
C29_Witness ==
  \E u \in DOMAIN uploads :
    /\ uploads[u].batch_returned
    /\ Len(uploads[u].analyses) = 3
    /\ Cardinality(ClustersCreated(uploads[u])) = 2
    /\ \E c \in ClustersCreated(uploads[u]) : db.clusters[c].size = 2

\* C30: when the request answered last was for a file and was answered 200,
\* every stored evaluation of the file has an Analysis, also when an earlier
\* request for the file stored the evaluations and failed while processing
\* them.
C30_UploadedEvaluationsAnalysed ==
  \A u \in DOMAIN uploads :
    (uploads[u].status = 200 /\ uploads[u].ended = UploadsEnded) =>
      \A ev \in Range(db.evaluations) :
        (\E i \in 1..Len(uploads[u].file) : uploads[u].file[i].evaluation_id = ev.evaluation_id)
          => \E a \in Range(db.analyses) : a.evaluation_id = ev.id


====
